---- MODULE Spec2Model ----
(***************************************************************************)
(* Model of the BOKAKA badge firmware (firmware/src): the persistent       *)
(* store (storage.cpp), the signed state report (usb_serial.cpp) and the   *)
(* tap link master/slave negotiation (tap_link.cpp, EVAL_BOARD_TEST).      *)
(***************************************************************************)
EXTENDS Integers, Sequences, FiniteSets, TLC

(***************************************************************************)
(* Bounds of the model.                                                    *)
(***************************************************************************)
\* PersistPayloadV1::MAX_LINKS is 64 in storage.h:49; the model keeps the
\* layout and the wrap logic and scales the number of slots.
MAX_LINKS == 2
\* number of identifiers of IdTable used as UIDs of the two joined devices
NumIds == 3
\* cap on totalTapCount increments
MaxTaps == 1

(***************************************************************************)
(* Program constants.                                                      *)
(***************************************************************************)
DEVICE_UID_LEN == 12
STORAGE_MAGIC == 1112493889
STORAGE_VERSION == 1
STORAGE_EEPROM_SIZE == 2048
STORAGE_EEPROM_BASE == 0
SECRET_KEY_LEN == 32
RESERVED32_BYTES == 64

(***************************************************************************)
(* Bytes and little-endian scalars (the MCU is little-endian: the struct   *)
(* bytes written to NVM are the LE bytes of each field).                   *)
(***************************************************************************)
Byte == 0..255

LE16(n) == << n % 256, (n \div 256) % 256 >>

LE32(n) == << n % 256, (n \div 256) % 256,
              (n \div 65536) % 256, (n \div 16777216) % 256 >>

FromLE16(b) == b[1] + 256 * b[2]

\* 32-bit quantities are kept as their four little-endian bytes (uint32_t in
\* memory), so that every value of the type is representable.
U32(n) == LE32(n)

U32Inc(b) ==
  IF b[1] < 255 THEN << b[1] + 1, b[2], b[3], b[4] >>
  ELSE IF b[2] < 255 THEN << 0, b[2] + 1, b[3], b[4] >>
  ELSE IF b[3] < 255 THEN << 0, 0, b[3] + 1, b[4] >>
  ELSE << 0, 0, 0, (b[4] + 1) % 256 >>

Zeros(n) == [i \in 1..n |-> 0]

MemSet(n, v) == [i \in 1..n |-> v]

(***************************************************************************)
(* Device identifiers: 12 raw bytes, byte 0 first.                         *)
(***************************************************************************)
IdTable ==
  << << 161, 178, 195, 212, 229, 246, 1, 2, 3, 4, 5, 6 >>,
     << 81, 0, 0, 0, 0, 0, 0, 0, 0, 0, 0, 0 >>,
     << 161, 178, 195, 212, 0, 0, 0, 0, 0, 0, 0, 9 >>,
     << 33, 0, 0, 0, 0, 0, 0, 0, 0, 0, 0, 1 >>,
     << 128, 2, 3, 4, 5, 6, 7, 8, 9, 10, 11, 12 >>,
     << 1, 2, 3, 4, 5, 6, 7, 8, 9, 10, 11, 12 >> >>

Ids == { IdTable[i] : i \in 1..NumIds }

ZeroId == Zeros(DEVICE_UID_LEN)

isUidAllZero(uid) == \A i \in 1..DEVICE_UID_LEN : uid[i] = 0

(***************************************************************************)
(* Secret keys (32 bytes).                                                 *)
(***************************************************************************)
ZeroKey == Zeros(SECRET_KEY_LEN)

TestKey == [i \in 1..SECRET_KEY_LEN |-> i]

(***************************************************************************)
(* Persisted image layout (storage.h).  Offsets are C offsets (0-based).   *)
(***************************************************************************)
SizeofLinkRecordV1 == DEVICE_UID_LEN

SizeofPersistHeader == 12

OffTotalTapCount == DEVICE_UID_LEN

OffLinkCount == OffTotalTapCount + 4

OffKeyVersion == OffLinkCount + 2

OffReserved8 == OffKeyVersion + 1

OffLinks == OffReserved8 + 1

OffSecretKey == OffLinks + MAX_LINKS * SizeofLinkRecordV1

OffReserved32 == OffSecretKey + SECRET_KEY_LEN

SizeofPersistPayloadV1 == OffReserved32 + RESERVED32_BYTES

OffHeaderCrc32 == 8

OffPayload == SizeofPersistHeader

SizeofPersistImageV1 == SizeofPersistHeader + SizeofPersistPayloadV1

ZeroPayload ==
  [ selfId |-> ZeroId, totalTapCount |-> U32(0), linkCount |-> 0,
    keyVersion |-> 0, reserved8 |-> 0,
    links |-> [i \in 1..MAX_LINKS |-> ZeroId],
    secretKey |-> ZeroKey, reserved32 |-> Zeros(RESERVED32_BYTES) ]

ZeroHeader ==
  [ magic |-> U32(0), version |-> 0, length |-> 0, crc32 |-> U32(0) ]

ZeroImage == [ header |-> ZeroHeader, payload |-> ZeroPayload ]

RECURSIVE Flatten(_)
Flatten(seqs) ==
  IF seqs = << >> THEN << >> ELSE Head(seqs) \o Flatten(Tail(seqs))

\* the bytes of a PersistPayloadV1 as they lie in memory
PayloadBytes(p) ==
  p.selfId \o p.totalTapCount \o LE16(p.linkCount)
    \o << p.keyVersion, p.reserved8 >> \o Flatten(p.links)
    \o p.secretKey \o p.reserved32

HeaderBytes(h) ==
  h.magic \o LE16(h.version) \o LE16(h.length) \o h.crc32

ImageBytes(img) == HeaderBytes(img.header) \o PayloadBytes(img.payload)

\* bytes [off, off+n) of a byte sequence, off 0-based
Slice(b, off, n) == SubSeq(b, off + 1, off + n)

ParseHeader(b) ==
  [ magic |-> Slice(b, 0, 4), version |-> FromLE16(Slice(b, 4, 2)),
    length |-> FromLE16(Slice(b, 6, 2)), crc32 |-> Slice(b, 8, 4) ]

ParsePayload(b) ==
  [ selfId |-> Slice(b, 0, DEVICE_UID_LEN),
    totalTapCount |-> Slice(b, OffTotalTapCount, 4),
    linkCount |-> FromLE16(Slice(b, OffLinkCount, 2)),
    keyVersion |-> b[OffKeyVersion + 1],
    reserved8 |-> b[OffReserved8 + 1],
    links |-> [i \in 1..MAX_LINKS |->
                 Slice(b, OffLinks + (i - 1) * SizeofLinkRecordV1, DEVICE_UID_LEN)],
    secretKey |-> Slice(b, OffSecretKey, SECRET_KEY_LEN),
    reserved32 |-> Slice(b, OffReserved32, RESERVED32_BYTES) ]

ParseImage(b) ==
  [ header |-> ParseHeader(Slice(b, 0, SizeofPersistHeader)),
    payload |-> ParsePayload(Slice(b, OffPayload, SizeofPersistPayloadV1)) ]

(***************************************************************************)
(* CRC.  calcCrc32 hands the payload to the MCU's CRC unit as len/4        *)
(* little-endian 32-bit words.  The unit is hardware outside the           *)
(* repository; it is modelled as a word-wise checksum with one 8-bit lane  *)
(* per byte of the word that, like CRC-32, depends on every word and its   *)
(* position and changes whenever a single byte changes.                    *)
(***************************************************************************)
\* The checksum of a run of words is the affine map acc |-> a * acc + b[j]
\* (mod 2^8, lane j) that the run applies to the lanes; CrcWord is the map
\* of one word, CrcCompose the map of a run followed by another run.
CrcWord(data, w) ==
  [ a |-> 31, b |-> [ j \in 1..4 |-> (data[4 * (w - 1) + j] + 1) % 256 ] ]

CrcCompose(f, g) ==
  [ a |-> (g.a * f.a) % 256,
    b |-> [ j \in 1..4 |-> (g.a * f.b[j] + g.b[j]) % 256 ] ]

\* words first..last of data, in order
RECURSIVE CrcFold(_, _, _)
CrcFold(data, first, last) ==
  IF first > last THEN [ a |-> 1, b |-> [ j \in 1..4 |-> 0 ] ]
  ELSE IF first = last THEN CrcWord(data, first)
  ELSE LET mid == (first + last) \div 2
       IN  CrcCompose(CrcFold(data, first, mid), CrcFold(data, mid + 1, last))

HAL_CRC_Calculate(data) ==
  LET f == CrcFold(data, 1, Len(data) \div 4)
  IN  [ j \in 1..4 |-> (f.a * 255 + f.b[j]) % 256 ]

calcCrc32(data) ==
  IF Len(data) % 4 # 0 THEN U32(0) ELSE HAL_CRC_Calculate(data)

(***************************************************************************)
(* State.                                                                  *)
(***************************************************************************)
VARIABLES
  uid,               \* uid[d]: hardware UID of device d (getDeviceUidRaw)
  powered,           \* device 1 is running (Storage::begin has completed)
  image,             \* Storage::_image
  dirty,             \* Storage::_dirty
  lastLinkIndex,     \* Storage::_lastLinkIndex
  linkCountChanged,  \* Storage::_linkCountChanged
  nvm,               \* EEPROM bytes STORAGE_EEPROM_BASE .. + sizeof(PersistImageV1)
  tap,               \* tap[d]: the TapLink object of device d and its line driver
  usb,               \* the response UsbCommandHandler wrote for the last line
  app,               \* device 1's Application and the TapLink fields that tap does not hold
  hal,               \* what device 1's IOneWireHal and platform clock deliver
  bat,               \* the TapLink object of the battery build
  calc,              \* arguments and result of the function applied last
  lastOp             \* the operation that produced this state, with its result

storeVars == << powered, image, dirty, lastLinkIndex, linkCountChanged, nvm >>

\* the parts only the application steps, the battery build and the function
\* applications use
extVars == << app, hal, bat, calc >>

vars == << uid, powered, image, dirty, lastLinkIndex, linkCountChanged, nvm,
           tap, usb, app, hal, bat, calc, lastOp >>

\* op: the operation, peer: its identifier argument, ret: its result,
\* why: for begin, the check of loadFromNvm that decided
Op(name, peer, ret) == [ op |-> name, peer |-> peer, ret |-> ret, why |-> "" ]

(***************************************************************************)
(* NVM HAL (platform_storage_arduino.cpp).  nvm[a + 1] is EEPROM byte a.   *)
(***************************************************************************)
platform_storage_read(mem, address) ==
  IF address >= STORAGE_EEPROM_SIZE THEN 0 ELSE mem[address + 1]

\* the byte loops of the save paths: bytes[1..] go through
\* platform_storage_write to address, address + 1, ...; a write at or beyond
\* the storage size is dropped
WriteRange(mem, address, bytes) ==
  [ i \in DOMAIN mem |->
      IF /\ i - 1 >= address
         /\ i - 1 < address + Len(bytes)
         /\ i - 1 < STORAGE_EEPROM_SIZE
      THEN bytes[i - address]
      ELSE mem[i] ]

(***************************************************************************)
(* Storage (storage.cpp).                                                  *)
(***************************************************************************)
\* header stamping of saveNow / begin
StampHeader(img) ==
  [ header |-> [ magic |-> U32(STORAGE_MAGIC), version |-> STORAGE_VERSION,
                 length |-> SizeofPersistPayloadV1,
                 crc32 |-> calcCrc32(PayloadBytes(img.payload)) ],
    payload |-> img.payload ]

\* only the crc32 word is recomputed (fast saves)
StampCrc(img) ==
  [ img EXCEPT !.header.crc32 = calcCrc32(PayloadBytes(img.payload)) ]

writeToNvm(mem, img) == WriteRange(mem, STORAGE_EEPROM_BASE, ImageBytes(img))

\* loadFromNvm without the CRC comparison
loadFromNvm_noCrc(mem) ==
  LET temp == ParseImage(mem)
  IN  IF temp.header.magic # U32(STORAGE_MAGIC)
      THEN [ ok |-> FALSE, why |-> "magic" ]
      ELSE IF temp.header.version # STORAGE_VERSION
      THEN [ ok |-> FALSE, why |-> "version" ]
      ELSE IF temp.header.length # SizeofPersistPayloadV1
      THEN [ ok |-> FALSE, why |-> "length" ]
      ELSE [ ok |-> TRUE, why |-> "ok", image |-> temp ]

loadFromNvm(mem) ==
  LET bytes == [i \in 1..SizeofPersistImageV1 |->
                   platform_storage_read(mem, STORAGE_EEPROM_BASE + i - 1)]
      temp == ParseImage(bytes)
  IN  IF SizeofPersistImageV1 > STORAGE_EEPROM_SIZE
      THEN [ ok |-> FALSE, why |-> "size" ]
      ELSE IF temp.header.magic # U32(STORAGE_MAGIC)
      THEN [ ok |-> FALSE, why |-> "magic" ]
      ELSE IF temp.header.version # STORAGE_VERSION
      THEN [ ok |-> FALSE, why |-> "version" ]
      ELSE IF temp.header.length # SizeofPersistPayloadV1
      THEN [ ok |-> FALSE, why |-> "length" ]
      ELSE IF calcCrc32(PayloadBytes(temp.payload)) # temp.header.crc32
      THEN [ ok |-> FALSE, why |-> "crc" ]
      ELSE [ ok |-> TRUE, why |-> "ok", image |-> temp ]

\* hasLink with a scan that stops one slot early
hasLink_shortScan(p, peerId) ==
  LET count == IF p.linkCount > MAX_LINKS THEN MAX_LINKS ELSE p.linkCount
  IN  \E i \in 0..(count - 2) : p.links[i + 1] = peerId

hasLink(p, peerId) ==
  LET count == IF p.linkCount > MAX_LINKS THEN MAX_LINKS ELSE p.linkCount
  IN  \E i \in 0..(count - 1) : p.links[i + 1] = peerId

\* addLinkIdx that reuses the last slot when the table is full
addLinkIdx_lastSlot(p) ==
  IF p.linkCount >= MAX_LINKS THEN MAX_LINKS - 1 ELSE p.linkCount

\* the slot addLink writes for a peer that is not yet recorded
addLinkIdx(p) ==
  IF p.linkCount >= MAX_LINKS THEN p.linkCount % MAX_LINKS ELSE p.linkCount

\* addLinkPayload that counts every new peer, also when the table is full
addLinkPayload_unclamped(p, peerId) ==
  [ p EXCEPT !.linkCount = (p.linkCount + 1) % 65536,
             !.links[addLinkIdx(p) + 1] = peerId ]

addLinkPayload(p, peerId) ==
  LET idx == addLinkIdx(p)
      cnt == IF p.linkCount >= MAX_LINKS THEN p.linkCount
             ELSE (p.linkCount + 1) % 65536
  IN  [ p EXCEPT !.linkCount = cnt, !.links[idx + 1] = peerId ]

\* clearAll that resets the counters and links but leaves the key bytes
clearAllPayload_keepKey(p) ==
  [ ZeroPayload EXCEPT !.selfId = p.selfId, !.secretKey = p.secretKey ]

\* clearAll without the copy that carries selfId over the memset
clearAllPayload_dropSelfId(p) == ZeroPayload

clearAllPayload(p) == [ ZeroPayload EXCEPT !.selfId = p.selfId ]

hasSecretKey(p) ==
  IF p.keyVersion = 0 THEN FALSE
  ELSE \E i \in 1..SECRET_KEY_LEN : p.secretKey[i] # 0

saveTapCountOnlyNvm(mem, img) ==
  LET m1 == WriteRange(mem, STORAGE_EEPROM_BASE + OffPayload + OffTotalTapCount,
                       img.payload.totalTapCount)
  IN  WriteRange(m1, STORAGE_EEPROM_BASE + OffHeaderCrc32, img.header.crc32)

saveLinkOnlyNvm(mem, img, idx, changed) ==
  LET linkEntryOffset == OffPayload + OffLinks + idx * SizeofLinkRecordV1
      m1 == IF changed
            THEN WriteRange(mem, STORAGE_EEPROM_BASE + OffPayload + OffLinkCount,
                            LE16(img.payload.linkCount))
            ELSE mem
      m2 == WriteRange(m1, STORAGE_EEPROM_BASE + linkEntryOffset,
                       img.payload.links[idx + 1])
  IN  WriteRange(m2, STORAGE_EEPROM_BASE + OffHeaderCrc32, img.header.crc32)

(***************************************************************************)
(* TapLink (tap_link.cpp, EVAL_BOARD_TEST build): the fields of the object *)
(* and the pure parts of the role negotiation.                             *)
(***************************************************************************)
NEGOTIATION_BITS == 32

Devices == 1..2

Peer(d) == 3 - d

\* a ^ b on two bytes
Xor8(a, b) ==
  LET x(i) == (((a \div (2 ^ i)) + (b \div (2 ^ i))) % 2) * (2 ^ i)
  IN  x(0) + x(1) + x(2) + x(3) + x(4) + x(5) + x(6) + x(7)

\* TapLink::TapLink: _randomSeed = micros() ^ (_selfId[i] << (i % 4) * 8), all i;
\* 32-bit values are four little-endian bytes
SeedInit(micros, selfId) ==
  [ j \in 1..4 |->
      Xor8(Xor8(Xor8(micros[j], selfId[j]), selfId[j + 4]), selfId[j + 8]) ]

\* _randomSeed * 1103515245 + 12345 in 32-bit arithmetic
\* (1103515245 = 16838 * 65536 + 20077)
Lcg(seed) ==
  LET slo  == seed[1] + 256 * seed[2]
      shi  == seed[3] + 256 * seed[4]
      low  == slo * 20077 + 12345
      high == (low \div 65536) + ((shi * 20077) % 65536) + ((slo * 16838) % 65536)
      l    == low % 65536
      h    == high % 65536
  IN  << l % 256, l \div 256, h % 256, h \div 256 >>

\* (_randomSeed >> 16) & 1
TieBreakerBit(seed) == (seed[3] % 2) = 1

\* (_selfId[idx / 8] >> (7 - idx % 8)) & 1
MyBit(selfId, idx) == ((selfId[(idx \div 8) + 1] \div (2 ^ (7 - (idx % 8)))) % 2) = 1

RECURSIVE SumBytes(_, _)
SumBytes(b, n) == IF n = 0 THEN 0 ELSE b[n] + SumBytes(b, n - 1)

\* sum of the 12 bytes of _selfId, & 1
UidSumOdd(selfId) == (SumBytes(selfId, DEVICE_UID_LEN) % 2) = 1

\* the role the post-loop branch of pollNegotiation assigns
TieBreakRole(selfId, myTieBreaker, peerTieBreaker) ==
  IF myTieBreaker /\ ~peerTieBreaker THEN TRUE
  ELSE IF ~myTieBreaker /\ peerTieBreaker THEN FALSE
  ELSE UidSumOdd(selfId)

\* the object after its constructor; driving is the HAL's driveLow state and
\* pc the position inside the blocking pollNegotiation
TapConstructed(micros, selfId) ==
  [ state                   |-> "NoConnection",
    roleKnown               |-> FALSE,
    isMaster                |-> FALSE,
    negotiationBitIndex     |-> 0,
    randomSeed              |-> SeedInit(micros, selfId),
    connectionJustDetected  |-> FALSE,
    negotiationJustCompleted |-> FALSE,
    driving                 |-> FALSE,
    pc                      |-> "idle",
    myBit                   |-> FALSE,
    lineIsLow               |-> FALSE,
    myTieBreaker            |-> FALSE,
    peerTieBreaker          |-> FALSE,
    postLoop                |-> FALSE ]

\* IOneWireHal::readLine: the open-drain line is HIGH iff nobody drives it
readLine(t) == \A d \in Devices : ~t[d].driving

\* the response of the serial command handler before any line was handled
UsbIdle == [ event |-> "none" ]

\* the Application object after its constructor, with the command-protocol
\* fields of the TapLink it creates with new; the TapLink constructor assigns
\* no value to _idExchangeComplete, so the field holds whatever the heap block
\* held: garbage
AppConstructed(garbage) ==
  [ connectionDetectedTime |-> 0,
    lastCommandTime        |-> 0,
    stateStartTime         |-> 0,
    lastPulseTime          |-> 0,
    pulseStartTime         |-> 0,
    isPulsing              |-> FALSE,
    peerReady              |-> FALSE,
    commandFailures        |-> 0,
    idExchangeComplete     |-> garbage,
    lastSaveMs             |-> U32(0) ]

\* the platform at boot: the millisecond and the microsecond clock, whether
\* a peer touches the contact, what has been observed of the peer since
\* (commands sent to an absent peer in a row, clock at the last command
\* received), and what has been observed of the line the device drives (when
\* it went LOW for a presence pulse, when it was released, how long the last
\* pulse was, whether a serial command ran during the pulse), and the number
\* of serial lines handled
HalBoot ==
  [ millis |-> 0, micros |-> 0, peerPresent |-> FALSE, unanswered |-> 0,
    heardAt |-> 0, lowSince |-> 0, releasedAt |-> 0, pulseWidth |-> 0,
    pulses |-> 0, disturbed |-> FALSE, lines |-> 0, roundAt |-> -1,
    clock |-> U32(0), sinceSave |-> U32(0), idled |-> FALSE, ticks |-> 0,
    badFor |-> 0, unstableFor |-> 0, resets |-> 0 ]

\* the TapLink object of the battery build after its constructor
BatConstructed ==
  [ state                     |-> "Sleeping",
    roleKnown                 |-> FALSE,
    isMaster                  |-> FALSE,
    stateStartTime            |-> 0,
    lastWakeTime              |-> 0,
    connectionJustEstablished |-> FALSE,
    connectionJustLost        |-> FALSE,
    wasConnected              |-> FALSE,
    micros                    |-> 0,
    simulateWake              |-> FALSE ]

\* no function applied yet
CalcIdle == [ fn |-> "none" ]

\* the parts a specification does not use stay as constructed
ExtIdle ==
  /\ app = AppConstructed(FALSE)
  /\ hal = HalBoot
  /\ bat = BatConstructed
  /\ calc = CalcIdle

(***************************************************************************)
(* Store operations as steps of device 1.                                  *)
(***************************************************************************)
\* Storage::begin, what it does to the image and the NVM
BeginStore ==
  /\ ~powered
  /\ powered' = TRUE
  /\ LET ld == loadFromNvm(nvm)
     IN  IF ~ld.ok
         THEN LET fresh == StampHeader(
                             [ ZeroImage EXCEPT !.payload.selfId = uid[1] ])
              IN  /\ image' = fresh
                  /\ nvm' = writeToNvm(nvm, fresh)
                  /\ lastOp' = [ Op("begin", ZeroId, FALSE) EXCEPT !.why = ld.why ]
         ELSE IF isUidAllZero(ld.image.payload.selfId)
         THEN LET img == StampHeader(
                           [ ld.image EXCEPT !.payload.selfId = uid[1] ])
              IN  /\ image' = img
                  /\ nvm' = writeToNvm(nvm, img)
                  /\ lastOp' = [ Op("begin", ZeroId, TRUE) EXCEPT !.why = "zeroid" ]
         ELSE /\ image' = ld.image
              /\ nvm' = nvm
              /\ lastOp' = [ Op("begin", ZeroId, TRUE) EXCEPT !.why = "ok" ]
  /\ dirty' = FALSE

\* Storage::begin, called once per boot from Application::init
Begin ==
  /\ BeginStore
  /\ UNCHANGED << uid, tap, usb, extVars, lastLinkIndex, linkCountChanged >>

\* Storage::saveNow
SaveNow ==
  /\ powered
  /\ image' = StampHeader(image)
  /\ nvm' = writeToNvm(nvm, image')
  /\ dirty' = FALSE
  /\ lastOp' = Op("saveNow", ZeroId, TRUE)
  /\ UNCHANGED << uid, tap, usb, extVars, powered, lastLinkIndex, linkCountChanged >>

\* Storage::loop; elapsed: now - _lastSaveMs >= STORAGE_DELAYED_WRITE_MS
Loop(elapsed) ==
  /\ powered
  /\ IF dirty /\ elapsed
     THEN /\ image' = StampHeader(image)
          /\ nvm' = writeToNvm(nvm, image')
          /\ dirty' = FALSE
     ELSE UNCHANGED << image, nvm, dirty >>
  /\ lastOp' = IF dirty /\ elapsed THEN Op("saveNow", ZeroId, TRUE)
                ELSE Op("other", ZeroId, TRUE)
  /\ UNCHANGED << uid, tap, usb, extVars, powered, lastLinkIndex, linkCountChanged >>

\* Storage::clearAll
ClearAll ==
  /\ powered
  /\ image' = StampHeader([ image EXCEPT !.payload = clearAllPayload(@) ])
  /\ nvm' = writeToNvm(nvm, image')
  /\ dirty' = FALSE
  /\ lastOp' = Op("clearAll", ZeroId, TRUE)
  /\ UNCHANGED << uid, tap, usb, extVars, powered, lastLinkIndex, linkCountChanged >>

\* addLink that marks the store dirty before the duplicate check
AddLink_dirtyFirst(peerId) ==
  /\ powered
  /\ dirty' = TRUE
  /\ IF hasLink(image.payload, peerId)
     THEN /\ lastOp' = Op("addLink", peerId, FALSE)
          /\ UNCHANGED << image, lastLinkIndex, linkCountChanged >>
     ELSE /\ image' = [ image EXCEPT !.payload = addLinkPayload(@, peerId) ]
          /\ linkCountChanged' = ~(image.payload.linkCount >= MAX_LINKS)
          /\ lastLinkIndex' = addLinkIdx(image.payload)
          /\ lastOp' = Op("addLink", peerId, TRUE)
  /\ UNCHANGED << uid, tap, usb, extVars, powered, nvm >>

\* Storage::addLink
AddLink(peerId) ==
  /\ powered
  /\ IF hasLink(image.payload, peerId)
     THEN /\ lastOp' = Op("addLink", peerId, FALSE)
          /\ UNCHANGED << image, dirty, lastLinkIndex, linkCountChanged >>
     ELSE /\ image' = [ image EXCEPT !.payload = addLinkPayload(@, peerId) ]
          /\ linkCountChanged' = ~(image.payload.linkCount >= MAX_LINKS)
          /\ lastLinkIndex' = addLinkIdx(image.payload)
          /\ dirty' = TRUE
          /\ lastOp' = Op("addLink", peerId, TRUE)
  /\ UNCHANGED << uid, tap, usb, extVars, powered, nvm >>

\* Storage::incrementTapCount
IncrementTapCount ==
  /\ powered
  /\ image.payload.totalTapCount # U32(MaxTaps)
  /\ image' = [ image EXCEPT !.payload.totalTapCount = U32Inc(@) ]
  /\ dirty' = TRUE
  /\ lastOp' = Op("other", ZeroId, TRUE)
  /\ UNCHANGED << uid, tap, usb, extVars, powered, lastLinkIndex, linkCountChanged, nvm >>

\* Storage::saveTapCountOnly
SaveTapCountOnly ==
  /\ powered
  /\ image' = StampCrc(image)
  /\ nvm' = saveTapCountOnlyNvm(nvm, image')
  /\ dirty' = FALSE
  /\ lastOp' = Op("saveTapCountOnly", ZeroId, TRUE)
  /\ UNCHANGED << uid, tap, usb, extVars, powered, lastLinkIndex, linkCountChanged >>

\* Storage::saveLinkOnly
SaveLinkOnly ==
  /\ powered
  /\ image' = StampCrc(image)
  /\ nvm' = saveLinkOnlyNvm(nvm, image', lastLinkIndex, linkCountChanged)
  /\ dirty' = FALSE
  /\ linkCountChanged' = FALSE
  /\ lastOp' = Op("saveLinkOnly", ZeroId, TRUE)
  /\ UNCHANGED << uid, tap, usb, extVars, powered, lastLinkIndex >>

\* Storage::setSecretKey
SetSecretKey(version, key) ==
  /\ powered
  /\ image' = StampHeader([ image EXCEPT !.payload.keyVersion = version,
                                         !.payload.secretKey = key ])
  /\ nvm' = writeToNvm(nvm, image')
  /\ dirty' = FALSE
  /\ lastOp' = Op("other", ZeroId, TRUE)
  /\ UNCHANGED << uid, tap, usb, extVars, powered, lastLinkIndex, linkCountChanged >>

(***************************************************************************)
(* Environment of the store: power cycling and damage to the NVM region.   *)
(***************************************************************************)
\* power is removed; the next boot constructs a new Storage object
PowerOff ==
  /\ powered
  /\ powered' = FALSE
  /\ image' = ZeroImage
  /\ dirty' = FALSE
  /\ lastLinkIndex' = 0
  /\ linkCountChanged' = FALSE
  /\ lastOp' = Op("other", ZeroId, TRUE)
  /\ UNCHANGED << uid, tap, usb, extVars, nvm >>

\* offsets of the image at which a stored byte is damaged while powered off
CorruptOffsets == { 0, 4, 6, OffHeaderCrc32, OffPayload + OffLinks }

\* one byte of a valid stored image is flipped
Corrupt(off) ==
  /\ ~powered
  /\ loadFromNvm(nvm).ok
  /\ nvm' = [ nvm EXCEPT ![off + 1] = 255 - @ ]
  /\ lastOp' = Op("corrupt", ZeroId, TRUE)
  /\ UNCHANGED << uid, tap, usb, extVars, powered, image, dirty, lastLinkIndex, linkCountChanged >>

\* the whole region is erased
Erase ==
  /\ ~powered
  /\ loadFromNvm(nvm).ok
  /\ nvm' = MemSet(SizeofPersistImageV1, 255)
  /\ lastOp' = Op("erase", ZeroId, TRUE)
  /\ UNCHANGED << uid, tap, usb, extVars, powered, image, dirty, lastLinkIndex, linkCountChanged >>

\* the identifiers the store is offered as peers
Peers == { IdTable[1], IdTable[2], IdTable[3] }

KeyVersions == { 1 }

Keys == { TestKey }

\* an image written by a build that did not yet capture selfId
BlankValidImage == StampHeader(ZeroImage)

InitStore ==
  /\ powered = FALSE
  /\ image = ZeroImage
  /\ dirty = FALSE
  /\ lastLinkIndex = 0
  /\ linkCountChanged = FALSE
  /\ nvm \in { MemSet(SizeofPersistImageV1, 255), ImageBytes(BlankValidImage) }
  /\ lastOp = Op("init", ZeroId, TRUE)

Init ==
  /\ uid = [ d \in Devices |-> IdTable[d] ]
  /\ tap = [ d \in Devices |-> TapConstructed(U32(0), uid[d]) ]
  /\ usb = UsbIdle
  /\ ExtIdle
  /\ InitStore

Next ==
  \/ Begin
  \/ SaveNow
  \/ \E elapsed \in BOOLEAN : Loop(elapsed)
  \/ ClearAll
  \/ \E p \in Peers : AddLink(p)
  \/ IncrementTapCount
  \/ SaveTapCountOnly
  \/ SaveLinkOnly
  \/ \E v \in KeyVersions, k \in Keys : SetSecretKey(v, k)
  \/ PowerOff
  \/ \E off \in CorruptOffsets : Corrupt(off)
  \/ Erase

Spec == Init /\ [][Next]_vars

\* the store operations alone, on an NVM region nothing else writes
NextStore ==
  \/ Begin
  \/ SaveNow
  \/ \E elapsed \in BOOLEAN : Loop(elapsed)
  \/ ClearAll
  \/ \E p \in Peers : AddLink(p)
  \/ IncrementTapCount
  \/ SaveTapCountOnly
  \/ SaveLinkOnly
  \/ \E v \in KeyVersions, k \in Keys : SetSecretKey(v, k)
  \/ PowerOff

SpecStore == Init /\ [][NextStore]_vars

(***************************************************************************)
(* MockStorage (test/mock_storage.h) next to Storage.  calc holds the mock *)
(* object; every step applies one operation to both objects, and lastOp    *)
(* records the two results (ret: Storage, mockRet: MockStorage).           *)
(***************************************************************************)
\* the object after MockStorage::MockStorage (reset)
MockConstructed ==
  [ fn |-> "mock", payload |-> ZeroPayload, secretKey |-> ZeroKey,
    keyVersion |-> 0, dirty |-> FALSE, beginCalled |-> FALSE,
    clearAllCalled |-> FALSE, incrementTapCountCalled |-> FALSE ]

\* MockStorage::hasLink
MockHasLink(m, peerId) ==
  LET count == IF m.payload.linkCount > MAX_LINKS THEN MAX_LINKS
               ELSE m.payload.linkCount
  IN  \E i \in 0..(count - 1) : m.payload.links[i + 1] = peerId

\* MockStorage::addLink for a peer that is not recorded
MockAddLink(m, peerId) ==
  LET idx == IF m.payload.linkCount >= MAX_LINKS
             THEN m.payload.linkCount % MAX_LINKS ELSE m.payload.linkCount
      cnt == IF m.payload.linkCount >= MAX_LINKS THEN m.payload.linkCount
             ELSE (m.payload.linkCount + 1) % 65536
  IN  [ m EXCEPT !.payload.linkCount = cnt, !.payload.links[idx + 1] = peerId,
                 !.dirty = TRUE ]

\* MockStorage::incrementTapCount
MockIncrementTapCount(m) ==
  [ m EXCEPT !.payload.totalTapCount = U32Inc(@),
             !.incrementTapCountCalled = TRUE, !.dirty = TRUE ]

\* MockStorage::setSecretKey
MockSetSecretKey(m, version, key) ==
  [ m EXCEPT !.keyVersion = version, !.secretKey = key, !.dirty = TRUE ]

\* MockStorage::clearAll
MockClearAll(m) ==
  [ m EXCEPT !.payload = [ ZeroPayload EXCEPT !.selfId = m.payload.selfId ],
             !.clearAllCalled = TRUE, !.dirty = TRUE ]

\* MockStorage::hasSecretKey
MockHasSecretKey(m) ==
  IF m.keyVersion = 0 THEN FALSE
  ELSE \E i \in 1..SECRET_KEY_LEN : m.secretKey[i] # 0

\* MockStorage::getKeyVersion
MockGetKeyVersion(m) == m.keyVersion

\* Storage::getKeyVersion
getKeyVersion(p) == p.keyVersion

\* lastOp of a step on both objects
BothOp(name, peerId, ret, mockRet) ==
  [ op |-> name, peer |-> peerId, ret |-> ret, why |-> "", mockRet |-> mockRet ]

\* begin() on both objects
BothBegin ==
  /\ BeginStore
  /\ calc' = [ calc EXCEPT !.beginCalled = TRUE ]
  /\ UNCHANGED << uid, tap, usb, app, hal, bat, lastLinkIndex, linkCountChanged >>

\* addLink(peerId) on both objects
BothAddLink(peerId) ==
  /\ powered
  /\ IF hasLink(image.payload, peerId)
     THEN UNCHANGED << image, dirty, lastLinkIndex, linkCountChanged >>
     ELSE /\ image' = [ image EXCEPT !.payload = addLinkPayload(@, peerId) ]
          /\ linkCountChanged' = ~(image.payload.linkCount >= MAX_LINKS)
          /\ lastLinkIndex' = addLinkIdx(image.payload)
          /\ dirty' = TRUE
  /\ calc' = IF MockHasLink(calc, peerId) THEN calc ELSE MockAddLink(calc, peerId)
  /\ lastOp' = BothOp("addLink", peerId, ~hasLink(image.payload, peerId),
                      ~MockHasLink(calc, peerId))
  /\ UNCHANGED << uid, tap, usb, app, hal, bat, powered, nvm >>

\* incrementTapCount() on both objects
BothIncrementTapCount ==
  /\ powered
  /\ image.payload.totalTapCount # U32(MaxTaps)
  /\ image' = [ image EXCEPT !.payload.totalTapCount = U32Inc(@) ]
  /\ dirty' = TRUE
  /\ calc' = MockIncrementTapCount(calc)
  /\ lastOp' = BothOp("incrementTapCount", ZeroId, TRUE, TRUE)
  /\ UNCHANGED << uid, tap, usb, app, hal, bat, powered, lastLinkIndex,
                  linkCountChanged, nvm >>

\* setSecretKey(version, key) on both objects
BothSetSecretKey(version, key) ==
  /\ powered
  /\ image' = StampHeader([ image EXCEPT !.payload.keyVersion = version,
                                         !.payload.secretKey = key ])
  /\ nvm' = writeToNvm(nvm, image')
  /\ dirty' = FALSE
  /\ calc' = MockSetSecretKey(calc, version, key)
  /\ lastOp' = BothOp("setSecretKey", ZeroId, TRUE, TRUE)
  /\ UNCHANGED << uid, tap, usb, app, hal, bat, powered, lastLinkIndex,
                  linkCountChanged >>

\* clearAll() on both objects
BothClearAll ==
  /\ powered
  /\ image' = StampHeader([ image EXCEPT !.payload = clearAllPayload(@) ])
  /\ nvm' = writeToNvm(nvm, image')
  /\ dirty' = FALSE
  /\ calc' = MockClearAll(calc)
  /\ lastOp' = BothOp("clearAll", ZeroId, TRUE, TRUE)
  /\ UNCHANGED << uid, tap, usb, app, hal, bat, powered, lastLinkIndex,
                  linkCountChanged >>

\* both objects constructed, the NVM region erased
InitMock ==
  /\ uid = [ d \in Devices |-> IdTable[d] ]
  /\ tap = [ d \in Devices |-> TapConstructed(U32(0), uid[d]) ]
  /\ usb = UsbIdle
  /\ app = AppConstructed(FALSE)
  /\ hal = HalBoot
  /\ bat = BatConstructed
  /\ calc = MockConstructed
  /\ powered = FALSE
  /\ image = ZeroImage
  /\ dirty = FALSE
  /\ lastLinkIndex = 0
  /\ linkCountChanged = FALSE
  /\ nvm = MemSet(SizeofPersistImageV1, 255)
  /\ lastOp = Op("init", ZeroId, TRUE)

NextMock ==
  \/ BothBegin
  \/ \E p \in Peers : BothAddLink(p)
  \/ BothIncrementTapCount
  \/ \E v \in KeyVersions, k \in Keys \cup { ZeroKey } : BothSetSecretKey(v, k)
  \/ BothClearAll

SpecMock == InitMock /\ [][NextMock]_vars

(***************************************************************************)
(* The fast saves byte by byte: every platform_storage_write reaches the   *)
(* EEPROM at once (EEPROM.write), so a power cut during a save leaves the  *)
(* bytes written so far.                                                   *)
(***************************************************************************)
\* the platform_storage_write calls of one byte loop, in order
ByteWrites(address, bytes) ==
  [ i \in 1..Len(bytes) |-> [ addr |-> address + i - 1, val |-> bytes[i] ] ]

\* Storage::saveTapCountOnly, its platform_storage_write calls in order
saveTapCountOnlyWrites(img) ==
  ByteWrites(STORAGE_EEPROM_BASE + OffPayload + OffTotalTapCount,
             img.payload.totalTapCount)
  \o ByteWrites(STORAGE_EEPROM_BASE + OffHeaderCrc32, img.header.crc32)

\* Storage::saveLinkOnly, its platform_storage_write calls in order
saveLinkOnlyWrites(img, idx, changed) ==
  (IF changed
   THEN ByteWrites(STORAGE_EEPROM_BASE + OffPayload + OffLinkCount,
                   LE16(img.payload.linkCount))
   ELSE << >>)
  \o ByteWrites(STORAGE_EEPROM_BASE + OffPayload + OffLinks
                  + idx * SizeofLinkRecordV1,
                img.payload.links[idx + 1])
  \o ByteWrites(STORAGE_EEPROM_BASE + OffHeaderCrc32, img.header.crc32)

\* the EEPROM after the first k of the writes ws (platform_storage_write
\* drops a write at or beyond the storage size)
RECURSIVE ApplyWrites(_, _, _)
ApplyWrites(mem, ws, k) ==
  IF k = 0 THEN mem
  ELSE LET m == ApplyWrites(mem, ws, k - 1)
       IN  IF ws[k].addr >= STORAGE_EEPROM_SIZE THEN m
           ELSE [ m EXCEPT ![ws[k].addr + 1] = ws[k].val ]

\* the number of leading writes that precede the first write of the CRC word
FieldWrites(ws) ==
  Cardinality({ i \in 1..Len(ws) :
                  \A j \in 1..i : ws[j].addr < STORAGE_EEPROM_BASE + OffHeaderCrc32
                                  \/ ws[j].addr >= STORAGE_EEPROM_BASE + OffPayload })

\* power is removed after k writes of a fast save
CutSave(name, ws, k) ==
  /\ powered
  /\ powered' = FALSE
  /\ nvm' = ApplyWrites(nvm, ws, k)
  /\ image' = ZeroImage
  /\ dirty' = FALSE
  /\ lastLinkIndex' = 0
  /\ linkCountChanged' = FALSE
  /\ lastOp' = [ op |-> "powerCut", peer |-> ZeroId, ret |-> TRUE, why |-> name,
                 k |-> k, fields |-> FieldWrites(ws), of |-> Len(ws),
                 changed |-> ApplyWrites(nvm, ws, FieldWrites(ws)) # nvm,
                 validBefore |-> loadFromNvm(nvm).ok ]
  /\ UNCHANGED << uid, tap, usb, extVars >>

\* Storage::saveTapCountOnly interrupted after k of its 8 byte writes
CutSaveTapCountOnly(k) ==
  /\ k < 4 + 4
  /\ CutSave("saveTapCountOnly", saveTapCountOnlyWrites(StampCrc(image)), k)

\* Storage::saveLinkOnly interrupted after k of its byte writes
CutSaveLinkOnly(k) ==
  /\ k < (IF linkCountChanged THEN 2 ELSE 0) + DEVICE_UID_LEN + 4
  /\ CutSave("saveLinkOnly",
             saveLinkOnlyWrites(StampCrc(image), lastLinkIndex, linkCountChanged), k)

\* the most byte writes a fast save makes
MaxFastWrites == 2 + DEVICE_UID_LEN + 4

NextCut ==
  \/ Begin
  \/ SaveNow
  \/ \E p \in Peers : AddLink(p)
  \/ IncrementTapCount
  \/ SaveTapCountOnly
  \/ SaveLinkOnly
  \/ PowerOff
  \/ \E k \in 0..MaxFastWrites : CutSaveTapCountOnly(k)
  \/ \E k \in 0..MaxFastWrites : CutSaveLinkOnly(k)

SpecCut == Init /\ [][NextCut]_vars

(***************************************************************************)
(* UsbCommandHandler (usb_serial.cpp).  A C string is a sequence of        *)
(* one-character strings; a response is a record of the fields printed.    *)
(***************************************************************************)
HexUpper == << "0", "1", "2", "3", "4", "5", "6", "7", "8", "9",
               "A", "B", "C", "D", "E", "F" >>

HexLower == << "0", "1", "2", "3", "4", "5", "6", "7", "8", "9",
               "a", "b", "c", "d", "e", "f" >>

\* the lambda hexVal of hexToBytes: -1 for a character that is no hex digit
hexVal(c) ==
  IF \E i \in 1..16 : HexUpper[i] = c
  THEN (CHOOSE i \in 1..16 : HexUpper[i] = c) - 1
  ELSE IF \E i \in 1..16 : HexLower[i] = c
  THEN (CHOOSE i \in 1..16 : HexLower[i] = c) - 1
  ELSE -1

\* UsbCommandHandler::hexToBytes: ok is the return value, out the buffer
hexToBytes(hex, outLen) ==
  IF Len(hex) # outLen * 2 THEN [ ok |-> FALSE, out |-> << >> ]
  ELSE IF \E i \in 1..Len(hex) : hexVal(hex[i]) < 0
  THEN [ ok |-> FALSE, out |-> << >> ]
  ELSE [ ok  |-> TRUE,
         out |-> [ i \in 1..outLen |->
                     hexVal(hex[2 * i - 1]) * 16 + hexVal(hex[2 * i]) ] ]

\* UsbCommandHandler::bytesToHex
bytesToHex(in) ==
  [ k \in 1..(2 * Len(in)) |->
      IF k % 2 = 1 THEN HexUpper[(in[(k + 1) \div 2] \div 16) + 1]
      ELSE HexUpper[(in[k \div 2] % 16) + 1] ]

\* mbedtls_md_hmac(SHA256, key, 32, msg, pos): the tag, kept as the pair it
\* is a function of
mbedtls_md_hmac(key, msg) == [ key |-> key, msg |-> msg ]

UsbError(msg) == [ event |-> "error", msg |-> msg ]

\* the message cmdSignState assembles: selfId, nonce, totalTapCount (4 LE),
\* linkCount clamped to MAX_LINKS (2 LE), links[0 .. lc-1].peerId
SignLc(p) == IF p.linkCount > MAX_LINKS THEN MAX_LINKS ELSE p.linkCount

SignMsg(p, nonce) ==
  p.selfId \o nonce \o p.totalTapCount \o LE16(SignLc(p))
    \o Flatten([ i \in 1..SignLc(p) |-> p.links[i] ])

\* UsbCommandHandler::cmdSignState: the response it prints
cmdSignStateResponse(p, nonceHex) ==
  IF ~hasSecretKey(p) THEN UsbError("no_key")
  ELSE IF Len(nonceHex) = 0 \/ Len(nonceHex) % 2 # 0 \/ Len(nonceHex) > 64
  THEN UsbError("invalid nonce")
  ELSE LET nonce == hexToBytes(nonceHex, Len(nonceHex) \div 2)
       IN  IF ~nonce.ok THEN UsbError("invalid nonce hex")
           ELSE [ event         |-> "SIGNED_STATE",
                  device_id     |-> bytesToHex(p.selfId),
                  nonce         |-> nonceHex,
                  totalTapCount |-> p.totalTapCount,
                  linkCount     |-> SignLc(p),
                  keyVersion    |-> p.keyVersion,
                  hmac          |-> mbedtls_md_hmac(p.secretKey,
                                                    SignMsg(p, nonce.out)) ]

(***************************************************************************)
(* UsbCommandHandler::handleLine: tokens, atoi and the dispatch.           *)
(***************************************************************************)
LowerAlpha == << "a", "b", "c", "d", "e", "f", "g", "h", "i", "j", "k", "l", "m",
                 "n", "o", "p", "q", "r", "s", "t", "u", "v", "w", "x", "y", "z" >>

UpperAlpha == << "A", "B", "C", "D", "E", "F", "G", "H", "I", "J", "K", "L", "M",
                 "N", "O", "P", "Q", "R", "S", "T", "U", "V", "W", "X", "Y", "Z" >>

\* if (*p >= 'a' && *p <= 'z') *p = *p - 'a' + 'A'
ToUpperChar(c) ==
  IF \E i \in 1..26 : LowerAlpha[i] = c
  THEN UpperAlpha[CHOOSE i \in 1..26 : LowerAlpha[i] = c]
  ELSE c

ToUpperStr(s) == [ i \in 1..Len(s) |-> ToUpperChar(s[i]) ]

\* the delimiters " \t" of strtok and of the leading-whitespace skip
IsDelim(c) == c = " " \/ c = "\t"

\* first index >= i of s holding a delimiter (want) or a non-delimiter,
\* Len(s) + 1 if there is none
ScanTo(s, i, want) ==
  IF \E k \in i..Len(s) : IsDelim(s[k]) = want
  THEN CHOOSE k \in i..Len(s) :
         /\ IsDelim(s[k]) = want
         /\ \A j \in i..(k - 1) : IsDelim(s[j]) # want
  ELSE Len(s) + 1

\* the tokens successive strtok(.., " \t") calls return, from index i on
RECURSIVE StrTok(_, _)
StrTok(s, i) ==
  LET b == ScanTo(s, i, FALSE)
      e == ScanTo(s, b, TRUE)
  IN  IF b > Len(s) THEN << >>
      ELSE << SubSeq(s, b, e - 1) >> \o StrTok(s, e)

IsDigit(c) == c \in { "0", "1", "2", "3", "4", "5", "6", "7", "8", "9" }

\* the decimal digits from index i on, accumulated as strtol does: a value
\* beyond LONG_MAX (32 bits) saturates
RECURSIVE AtoiFrom(_, _, _)
AtoiFrom(s, i, acc) ==
  IF i > Len(s) \/ ~IsDigit(s[i]) THEN acc
  ELSE IF acc > (2147483647 - hexVal(s[i])) \div 10 THEN 2147483647
  ELSE AtoiFrom(s, i + 1, acc * 10 + hexVal(s[i]))

\* atoi, in the C library of the build (int) strtol(s, NULL, 10): optional
\* sign, then the leading decimal digits; 0 if there are none
atoi(s) ==
  IF Len(s) = 0 THEN 0
  ELSE IF s[1] = "-" THEN 0 - AtoiFrom(s, 2, 0)
  ELSE IF s[1] = "+" THEN AtoiFrom(s, 2, 0)
  ELSE AtoiFrom(s, 1, 0)

\* command words
W_HELLO == << "H", "E", "L", "L", "O" >>

W_GET_STATE == << "G", "E", "T", "_", "S", "T", "A", "T", "E" >>

W_CLEAR == << "C", "L", "E", "A", "R" >>

W_DUMP == << "D", "U", "M", "P" >>

W_PROVISION_KEY == << "P", "R", "O", "V", "I", "S", "I", "O", "N", "_", "K", "E", "Y" >>

W_SIGN_STATE == << "S", "I", "G", "N", "_", "S", "T", "A", "T", "E" >>

\* UsbCommandHandler::cmdDump: the response it prints
cmdDumpResponse(p, offsetArg, countArg) ==
  LET offset == IF offsetArg < 0 THEN 0 ELSE offsetArg
      count == IF countArg < 0 THEN 0 ELSE countArg
      maxAvailable == IF p.linkCount > MAX_LINKS THEN MAX_LINKS ELSE p.linkCount
      end == IF offset + count > maxAvailable THEN maxAvailable ELSE offset + count
  IN  IF offset >= MAX_LINKS
      THEN [ event |-> "links", items |-> << >> ]
      ELSE [ event  |-> "links",
             offset |-> offset,
             count  |-> end - offset,
             items  |-> [ k \in 1..(IF end > offset THEN end - offset ELSE 0) |->
                            bytesToHex(p.links[offset + k]) ] ]

Sp == << " " >>

\* 64 hex digits with one character that is no hex digit
BadKeyHex == [ i \in 1..64 |-> IF i = 64 THEN "g" ELSE "0" ]

\* serial lines offered to handleLine.  class "invalid": unknown command
\* word, PROVISION_KEY with a missing argument, a version outside 1..255 or a
\* key that is not 64 hex digits, SIGN_STATE with a missing, odd-length,
\* too long or non-hex nonce.  class "lenient": atoi reads the leading
\* digits of the version token.
LineTable ==
  << [ class |-> "invalid", line |-> << "F", "O", "O" >> ],
     [ class |-> "invalid", line |-> ToUpperStr(W_PROVISION_KEY) ],
     [ class |-> "invalid",
       line |-> << "p", "r", "o", "v", "i", "s", "i", "o", "n", "_", "k", "e", "y" >>
                \o Sp \o << "1" >> ],
     [ class |-> "invalid",
       line |-> W_PROVISION_KEY \o Sp \o << "0" >> \o Sp \o bytesToHex(TestKey) ],
     [ class |-> "invalid",
       line |-> W_PROVISION_KEY \o Sp \o << "2", "5", "6" >> \o Sp
                \o bytesToHex(TestKey) ],
     [ class |-> "invalid",
       line |-> W_PROVISION_KEY \o Sp \o << "-", "1" >> \o Sp \o bytesToHex(TestKey) ],
     [ class |-> "invalid",
       line |-> W_PROVISION_KEY \o Sp
                \o << "4", "2", "9", "4", "9", "6", "7", "2", "9", "7" >>
                \o Sp \o bytesToHex(TestKey) ],
     [ class |-> "invalid",
       line |-> W_PROVISION_KEY \o Sp \o << "1" >> \o Sp \o << "0", "0" >> ],
     [ class |-> "invalid",
       line |-> W_PROVISION_KEY \o Sp \o << "1" >> \o Sp \o BadKeyHex ],
     [ class |-> "invalid", line |-> Sp \o W_SIGN_STATE \o Sp ],
     [ class |-> "invalid", line |-> W_SIGN_STATE \o Sp \o << "a", "b", "c" >> ],
     [ class |-> "invalid",
       line |-> W_SIGN_STATE \o Sp \o [ i \in 1..66 |-> "1" ] ],
     [ class |-> "invalid", line |-> W_SIGN_STATE \o << "\t" >> \o << "z", "z" >> ],
     [ class |-> "lenient",
       line |-> W_PROVISION_KEY \o Sp \o << "2", "x" >> \o Sp \o bytesToHex(TestKey) ],
     [ class |-> "valid",
       line |-> W_PROVISION_KEY \o Sp \o << "1" >> \o Sp \o bytesToHex(TestKey) ],
     [ class |-> "valid",
       line |-> << "s", "i", "g", "n", "_", "s", "t", "a", "t", "e" >>
                \o Sp \o << "5", "a" >> ],
     [ class |-> "valid", line |-> W_CLEAR ],
     [ class |-> "valid", line |-> W_GET_STATE ] >>

\* cmdProvisionKey without the range check of the version
cmdProvisionKeyOutcome_noRangeCheck(version, keyHex) ==
  LET key == hexToBytes(keyHex, SECRET_KEY_LEN)
  IN  IF ~key.ok
      THEN [ resp |-> UsbError("invalid key hex"), act |-> "none" ]
      ELSE [ resp |-> [ event |-> "ack", cmd |-> "PROVISION_KEY",
                        keyVersion |-> version ],
             act |-> "setSecretKey", version |-> version % 256, key |-> key.out ]

\* UsbCommandHandler::cmdProvisionKey: the response it prints, and whether
\* it goes on to setSecretKey
cmdProvisionKeyOutcome(version, keyHex) ==
  LET key == hexToBytes(keyHex, SECRET_KEY_LEN)
  IN  IF version <= 0 \/ version > 255
      THEN [ resp |-> UsbError("invalid keyVersion"), act |-> "none" ]
      ELSE IF ~key.ok
      THEN [ resp |-> UsbError("invalid key hex"), act |-> "none" ]
      ELSE [ resp |-> [ event |-> "ack", cmd |-> "PROVISION_KEY",
                        keyVersion |-> version ],
             act |-> "setSecretKey", version |-> version, key |-> key.out ]

\* handleLine: the response printed and the store operation called; selfUid
\* is the hardware UID cmdHello prints
handleLineOutcome(p, selfUid, line) ==
  LET tok == StrTok(line, 1)
      cmd == ToUpperStr(tok[1])
  IN  IF Len(tok) = 0 THEN [ resp |-> UsbIdle, act |-> "none" ]
      ELSE IF cmd = W_HELLO
      THEN [ resp |-> [ event |-> "hello", device_id |-> bytesToHex(selfUid) ],
             act |-> "none" ]
      ELSE IF cmd = W_GET_STATE
      THEN [ resp |-> [ event |-> "state", totalTapCount |-> p.totalTapCount,
                        linkCount |-> p.linkCount ],
             act |-> "none" ]
      ELSE IF cmd = W_CLEAR
      THEN [ resp |-> [ event |-> "ack", cmd |-> "CLEAR" ], act |-> "clearAll" ]
      ELSE IF cmd = W_DUMP
      THEN [ resp |-> cmdDumpResponse(p,
                        IF Len(tok) >= 2 THEN atoi(tok[2]) ELSE 0,
                        IF Len(tok) >= 3 THEN atoi(tok[3]) ELSE 10),
             act |-> "none" ]
      ELSE IF cmd = W_PROVISION_KEY
      THEN IF Len(tok) < 3
           THEN [ resp |-> UsbError("PROVISION_KEY args"), act |-> "none" ]
           ELSE cmdProvisionKeyOutcome(atoi(tok[2]), tok[3])
      ELSE IF cmd = W_SIGN_STATE
      THEN IF Len(tok) < 2
           THEN [ resp |-> UsbError("SIGN_STATE args"), act |-> "none" ]
           ELSE [ resp |-> cmdSignStateResponse(p, tok[2]), act |-> "none" ]
      ELSE [ resp |-> [ event |-> "error", msg |-> "unknown command: ",
                        token |-> cmd ],
             act |-> "none" ]

(***************************************************************************)
(* Serial commands as steps of device 1.                                   *)
(***************************************************************************)
\* UsbCommandHandler::cmdProvisionKey, with Storage::setSecretKey
CmdProvisionKey(version, keyHex) ==
  /\ powered
  /\ LET key == hexToBytes(keyHex, SECRET_KEY_LEN)
     IN  IF version <= 0 \/ version > 255
         THEN /\ usb' = UsbError("invalid keyVersion")
              /\ lastOp' = Op("provisionKey", ZeroId, FALSE)
              /\ UNCHANGED << image, nvm, dirty >>
         ELSE IF ~key.ok
         THEN /\ usb' = UsbError("invalid key hex")
              /\ lastOp' = Op("provisionKey", ZeroId, FALSE)
              /\ UNCHANGED << image, nvm, dirty >>
         ELSE /\ usb' = [ event |-> "ack", cmd |-> "PROVISION_KEY",
                          keyVersion |-> version ]
              /\ image' = StampHeader([ image EXCEPT
                                          !.payload.keyVersion = version,
                                          !.payload.secretKey = key.out ])
              /\ nvm' = writeToNvm(nvm, image')
              /\ dirty' = FALSE
              /\ lastOp' = Op("provisionKey", ZeroId, TRUE)
  /\ UNCHANGED << uid, tap, extVars, powered, lastLinkIndex, linkCountChanged >>

\* nonce arguments of SIGN_STATE with the bytes they denote: 1 byte, 2 bytes
\* in mixed case, 32 bytes, and an odd number of digits
NonceTable ==
  << [ hex |-> << "5", "a" >>,           bytes |-> << 90 >> ],
     [ hex |-> << "B", "e", "0", "F" >>, bytes |-> << 190, 15 >> ],
     [ hex |-> [ i \in 1..64 |-> IF i % 2 = 1 THEN "a" ELSE "5" ],
       bytes |-> [ i \in 1..32 |-> 165 ] ],
     [ hex |-> << "a", "b", "c" >>,      bytes |-> << >> ] >>

\* cmdSignState that also marks the store dirty
CmdSignState_marksDirty(n) ==
  /\ powered
  /\ usb' = cmdSignStateResponse(image.payload, NonceTable[n].hex)
  /\ dirty' = TRUE
  /\ lastOp' = [ op |-> "signState", peer |-> ZeroId,
                 ret |-> (usb'.event = "SIGNED_STATE"), why |-> "", arg |-> n,
                 again |-> (lastOp.op = "signState" /\ lastOp.arg = n) ]
  /\ UNCHANGED << uid, tap, extVars, powered, image, lastLinkIndex,
                  linkCountChanged, nvm >>

\* UsbCommandHandler::cmdSignState on NonceTable[n].hex; again: the line
\* before was the same SIGN_STATE
CmdSignState(n) ==
  /\ powered
  /\ usb' = cmdSignStateResponse(image.payload, NonceTable[n].hex)
  /\ lastOp' = [ op |-> "signState", peer |-> ZeroId,
                 ret |-> (usb'.event = "SIGNED_STATE"), why |-> "", arg |-> n,
                 again |-> (lastOp.op = "signState" /\ lastOp.arg = n) ]
  /\ UNCHANGED << uid, tap, extVars, powered, image, dirty, lastLinkIndex,
                  linkCountChanged, nvm >>

\* versions and keys offered to PROVISION_KEY: the key 01 02 .. 20, the
\* all-zero key, and a key that is too short
ProvisionVersions == { 0, 1, 256 }

KeyHexes == { bytesToHex(TestKey), bytesToHex(ZeroKey), << "0", "0" >> }

InitUsb ==
  /\ uid = [ d \in Devices |-> IdTable[d] ]
  /\ tap = [ d \in Devices |-> TapConstructed(U32(0), uid[d]) ]
  /\ usb = UsbIdle
  /\ ExtIdle
  /\ powered = FALSE
  /\ image = ZeroImage
  /\ dirty = FALSE
  /\ lastLinkIndex = 0
  /\ linkCountChanged = FALSE
  /\ nvm = MemSet(SizeofPersistImageV1, 255)
  /\ lastOp = Op("init", ZeroId, TRUE)

NextUsb ==
  \/ Begin
  \/ \E p \in Peers : AddLink(p)
  \/ IncrementTapCount
  \/ \E v \in ProvisionVersions, k \in KeyHexes : CmdProvisionKey(v, k)
  \/ \E n \in DOMAIN NonceTable : CmdSignState(n)

SpecUsb == InitUsb /\ [][NextUsb]_vars

\* UsbCommandHandler::handleLine on LineTable[i].line, with the store
\* operation the command handler calls
HandleLine(i) ==
  /\ powered
  /\ LET o == handleLineOutcome(image.payload, uid[1], LineTable[i].line)
     IN  /\ usb' = o.resp
         /\ IF o.act = "setSecretKey"
            THEN /\ image' = StampHeader([ image EXCEPT
                                             !.payload.keyVersion = o.version,
                                             !.payload.secretKey = o.key ])
                 /\ nvm' = writeToNvm(nvm, image')
                 /\ dirty' = FALSE
            ELSE IF o.act = "clearAll"
            THEN /\ image' = StampHeader([ image EXCEPT
                                             !.payload = clearAllPayload(@) ])
                 /\ nvm' = writeToNvm(nvm, image')
                 /\ dirty' = FALSE
            ELSE UNCHANGED << image, nvm, dirty >>
         /\ lastOp' = [ op |-> "handleLine", peer |-> ZeroId,
                        ret |-> (o.resp.event # "error"), why |-> "", arg |-> i ]
  /\ UNCHANGED << uid, tap, extVars, powered, lastLinkIndex, linkCountChanged >>

NextLine ==
  \/ Begin
  \/ \E p \in Peers : AddLink(p)
  \/ \E i \in DOMAIN LineTable : HandleLine(i)

SpecLine == InitUsb /\ [][NextLine]_vars

\* the offset and count arguments offered to DUMP
DumpArgs == -1..(MAX_LINKS + 1)

\* UsbCommandHandler::cmdDump with the arguments handleLine parsed
CmdDump(offset, count) ==
  /\ powered
  /\ usb' = cmdDumpResponse(image.payload, offset, count)
  /\ lastOp' = [ op |-> "dump", peer |-> ZeroId, ret |-> TRUE, why |-> "",
                 offset |-> offset, count |-> count ]
  /\ UNCHANGED << uid, tap, extVars, storeVars >>

NextDump ==
  \/ Begin
  \/ \E p \in Peers : AddLink(p)
  \/ \E offset \in DumpArgs, count \in DumpArgs : CmdDump(offset, count)

SpecDump == InitUsb /\ [][NextDump]_vars

(***************************************************************************)
(* UsbCommandHandler::poll character by character.  calc holds the bytes   *)
(* waiting in the serial receive buffer (stream, pos), the command buffer  *)
(* _buf[0 .. _len - 1] (buf), and the number of characters of the line     *)
(* being received that poll has read so far (lineLen).                     *)
(***************************************************************************)
CMD_BUF_SIZE == 128

\* n characters that are no delimiter
Filler(n) == [ i \in 1..n |-> "x" ]

\* what the host sends: a command, lines of CMD_BUF_SIZE - 1 and of
\* CMD_BUF_SIZE characters, and longer lines, with \n or \r\n at the end
SerialStreams ==
  << W_CLEAR \o << "\n" >>,
     Filler(CMD_BUF_SIZE - 1) \o << "\r", "\n" >>,
     Filler(CMD_BUF_SIZE) \o << "\n" >>,
     Filler(CMD_BUF_SIZE + 2) \o << "\n" >>,
     Filler(CMD_BUF_SIZE) \o W_CLEAR \o << "\n" >>,
     Filler(CMD_BUF_SIZE) \o W_GET_STATE \o << "\r", "\n" >> >>

\* the host's bytes reach the receive buffer while the command buffer is
\* empty
SerialArrives(i) ==
  /\ powered
  /\ calc.fn = "none"
  /\ calc' = [ fn |-> "poll", stream |-> i, pos |-> 1, buf |-> << >>,
               lineLen |-> 0 ]
  /\ usb' = UsbIdle
  /\ lastOp' = [ op |-> "serialArrives", peer |-> ZeroId, ret |-> TRUE,
                 why |-> "", arg |-> i ]
  /\ UNCHANGED << uid, tap, app, hal, bat, storeVars >>

\* the receive buffer after poll has read one more byte: empty after the
\* last one
AfterRead(c, buf, lineLen) ==
  IF c.pos = Len(SerialStreams[c.stream]) THEN CalcIdle
  ELSE [ c EXCEPT !.pos = @ + 1, !.buf = buf, !.lineLen = lineLen ]

\* one turn of the while loop of UsbCommandHandler::poll: it reads a byte;
\* on \n a non-empty command buffer goes to handleLine, with the store
\* operation the command handler calls
PollChar ==
  /\ calc.fn = "poll"
  /\ LET c == SerialStreams[calc.stream][calc.pos]
         o == handleLineOutcome(image.payload, uid[1], calc.buf)
     IN  IF c = "\r"
         THEN /\ calc' = AfterRead(calc, calc.buf, calc.lineLen)
              /\ lastOp' = [ op |-> "pollChar", peer |-> ZeroId, ret |-> FALSE,
                             why |-> c, line |-> << >> ]
              /\ UNCHANGED << usb, image, nvm, dirty >>
         ELSE IF c = "\n"
         THEN /\ calc' = AfterRead(calc, << >>, 0)
              /\ lastOp' = [ op |-> "pollChar", peer |-> ZeroId,
                             ret |-> Len(calc.buf) > 0, why |-> c,
                             line |-> calc.buf ]
              /\ IF Len(calc.buf) = 0
                 THEN UNCHANGED << usb, image, nvm, dirty >>
                 ELSE /\ usb' = o.resp
                      /\ IF o.act = "setSecretKey"
                         THEN /\ image' = StampHeader([ image EXCEPT
                                             !.payload.keyVersion = o.version,
                                             !.payload.secretKey = o.key ])
                              /\ nvm' = writeToNvm(nvm, image')
                              /\ dirty' = FALSE
                         ELSE IF o.act = "clearAll"
                         THEN /\ image' = StampHeader([ image EXCEPT
                                             !.payload = clearAllPayload(@) ])
                              /\ nvm' = writeToNvm(nvm, image')
                              /\ dirty' = FALSE
                         ELSE UNCHANGED << image, nvm, dirty >>
         ELSE /\ calc' = AfterRead(calc,
                                   IF Len(calc.buf) < CMD_BUF_SIZE - 1
                                   THEN Append(calc.buf, c) ELSE << >>,
                                   calc.lineLen + 1)
              /\ lastOp' = [ op |-> "pollChar", peer |-> ZeroId, ret |-> FALSE,
                             why |-> c, line |-> << >> ]
              /\ UNCHANGED << usb, image, nvm, dirty >>
  /\ UNCHANGED << uid, tap, app, hal, bat, powered, lastLinkIndex,
                  linkCountChanged >>

\* poll's while loop runs until the receive buffer is empty: nothing else
\* runs in between
NextSerial ==
  \/ calc.fn = "none" /\ Begin
  \/ calc.fn = "none" /\ \E p \in Peers : AddLink(p)
  \/ calc.fn = "none" /\ SaveNow
  \/ \E i \in DOMAIN SerialStreams : SerialArrives(i)
  \/ PollChar

SpecSerial == InitUsb /\ [][NextSerial]_vars

(***************************************************************************)
(* A command handler step by step: what it prints and the store operation  *)
(* it calls, in program order.  calc holds the handler's position.         *)
(***************************************************************************)
\* a handler that calls the store operation first and prints afterwards
handlerSteps_storeFirst(o) ==
  IF o.act = "none" THEN << [ do |-> "print" ] >>
  ELSE << [ do |-> o.act ], [ do |-> "print" ] >>

\* the statements of the handler that produced outcome o: every handler
\* prints and flushes its response first; cmdClear and cmdProvisionKey then
\* call clearAll or setSecretKey (usb_serial.cpp 237-241, 307-313)
handlerSteps(o) ==
  IF o.act = "none" THEN << [ do |-> "print" ] >>
  ELSE << [ do |-> "print" ], [ do |-> o.act ] >>

\* the lines that name CLEAR or PROVISION_KEY
CmdLines ==
  { i \in DOMAIN LineTable :
      LET tok == StrTok(LineTable[i].line, 1)
      IN  Len(tok) > 0 /\ ToUpperStr(tok[1]) \in { W_CLEAR, W_PROVISION_KEY } }

\* UsbCommandHandler::poll hands a complete line to handleLine: nothing has
\* been printed for it yet
LineArrives(i) ==
  /\ powered
  /\ calc.fn = "none"
  /\ LET o == handleLineOutcome(image.payload, uid[1], LineTable[i].line)
     IN  calc' = [ fn |-> "handleLine", arg |-> i, o |-> o,
                   steps |-> handlerSteps(o) ]
  /\ usb' = UsbIdle
  /\ lastOp' = [ op |-> "lineArrives", peer |-> ZeroId, ret |-> TRUE,
                 why |-> "", arg |-> i ]
  /\ UNCHANGED << uid, tap, app, hal, bat, storeVars >>

\* the next statement of the handler: the response goes out on the serial
\* line, or the store operation runs with its blocking write
HandlerStep ==
  /\ calc.fn = "handleLine"
  /\ LET st == Head(calc.steps)
         o  == calc.o
     IN  /\ IF st.do = "print"
            THEN /\ usb' = o.resp
                 /\ UNCHANGED << image, nvm, dirty >>
            ELSE IF st.do = "setSecretKey"
            THEN /\ image' = StampHeader([ image EXCEPT
                                             !.payload.keyVersion = o.version,
                                             !.payload.secretKey = o.key ])
                 /\ nvm' = writeToNvm(nvm, image')
                 /\ dirty' = FALSE
                 /\ usb' = usb
            ELSE /\ image' = StampHeader([ image EXCEPT
                                             !.payload = clearAllPayload(@) ])
                 /\ nvm' = writeToNvm(nvm, image')
                 /\ dirty' = FALSE
                 /\ usb' = usb
         /\ lastOp' = [ op |-> st.do, peer |-> ZeroId, ret |-> TRUE,
                        why |-> "", arg |-> calc.arg ]
  /\ calc' = IF Len(calc.steps) = 1 THEN CalcIdle
             ELSE [ calc EXCEPT !.steps = Tail(@) ]
  /\ UNCHANGED << uid, tap, app, hal, bat, powered, lastLinkIndex,
                  linkCountChanged >>

\* the main loop is one thread: while a handler runs nothing else does
NextCmd ==
  \/ calc.fn = "none" /\ Begin
  \/ calc.fn = "none" /\ \E p \in Peers : AddLink(p)
  \/ calc.fn = "none" /\ IncrementTapCount
  \/ \E i \in CmdLines : LineArrives(i)
  \/ HandlerStep

SpecCmd == InitUsb /\ [][NextCmd]_vars

(***************************************************************************)
(* Role negotiation of two joined devices (TapLink::startNegotiation,      *)
(* TapLink::pollNegotiation).  The sync handshake aligns the bit slots of  *)
(* the two devices to 1-2 ms, and each device samples 2.5 ms into its 5 ms *)
(* drive period: a device samples slot k while the peer drives slot k, and *)
(* releases it after the peer has sampled.  A device that has left         *)
(* pollNegotiation does not drive: Application::onNegotiationComplete sets *)
(* _lastCommandTime, and the first command follows COMMAND_INTERVAL_MS     *)
(* (500 ms) later, after the peer's remaining slots (at most 33 * 7 ms).   *)
(***************************************************************************)
notStoreVars == << uid, powered, image, dirty, lastLinkIndex, linkCountChanged,
                   nvm, usb, extVars, lastOp >>

\* the peer has returned from pollNegotiation and leaves the line released
PeerDone(d) == tap[Peer(d)].state = "Connected"

\* TapLink::poll in Detecting, which calls startNegotiation; the handshake
\* returns with the line released
StartNegotiation(d) ==
  /\ tap[d].state = "Detecting"
  /\ tap' = [ tap EXCEPT ![d] = [ @ EXCEPT !.connectionJustDetected = TRUE,
                                           !.state = "Negotiating",
                                           !.negotiationBitIndex = 0,
                                           !.roleKnown = FALSE,
                                           !.isMaster = FALSE,
                                           !.driving = FALSE,
                                           !.pc = "slot" ] ]
  /\ UNCHANGED notStoreVars

\* pollNegotiation, bit slot start: drive LOW for a 0 bit, release for a 1 bit
NegDrive(d) ==
  /\ tap[d].state = "Negotiating" /\ tap[d].pc = "slot"
  /\ tap[d].negotiationBitIndex < NEGOTIATION_BITS /\ ~tap[d].roleKnown
  /\ tap[Peer(d)].state \in { "Negotiating", "Connected" }
  /\ LET myBit == MyBit(uid[d], tap[d].negotiationBitIndex)
     IN  tap' = [ tap EXCEPT ![d] = [ @ EXCEPT !.myBit = myBit,
                                              !.driving = ~myBit,
                                              !.pc = "sample" ] ]
  /\ UNCHANGED notStoreVars

\* pollNegotiation, sample point: three reads of the line, majority vote
NegSample(d) ==
  /\ tap[d].pc = "sample"
  /\ \/ PeerDone(d)
     \/ /\ tap[Peer(d)].negotiationBitIndex = tap[d].negotiationBitIndex
        /\ tap[Peer(d)].pc \in { "sample", "hold" }
  /\ LET sample1  == readLine(tap)
         sample2  == readLine(tap)
         sample3  == readLine(tap)
         lowCount == (IF ~sample1 THEN 1 ELSE 0) + (IF ~sample2 THEN 1 ELSE 0)
                     + (IF ~sample3 THEN 1 ELSE 0)
     IN  tap' = [ tap EXCEPT ![d] = [ @ EXCEPT !.lineIsLow = (lowCount >= 2),
                                              !.pc = "hold" ] ]
  /\ UNCHANGED notStoreVars

\* pollNegotiation, end of the drive period: release, evaluate, next slot;
\* with the role known the loop ends and the call returns in Connected
NegRelease(d) ==
  /\ tap[d].pc = "hold"
  /\ \/ PeerDone(d)
     \/ tap[Peer(d)].negotiationBitIndex > tap[d].negotiationBitIndex
     \/ /\ tap[Peer(d)].negotiationBitIndex = tap[d].negotiationBitIndex
        /\ tap[Peer(d)].pc = "hold"
  /\ LET won == tap[d].myBit /\ tap[d].lineIsLow
     IN  tap' = [ tap EXCEPT ![d] =
                    [ @ EXCEPT !.driving = FALSE,
                               !.isMaster = IF won THEN TRUE ELSE @,
                               !.roleKnown = IF won THEN TRUE ELSE @,
                               !.negotiationBitIndex = @ + 1,
                               !.state = IF won THEN "Connected" ELSE @,
                               !.negotiationJustCompleted = IF won THEN TRUE ELSE @,
                               !.pc = IF won THEN "idle" ELSE "slot" ] ]
  /\ UNCHANGED notStoreVars

\* pollNegotiation after the loop with the role unknown: draw the
\* tie-breaker bit and put it on the line
NegTieDrive(d) ==
  /\ tap[d].state = "Negotiating" /\ tap[d].pc = "slot"
  /\ ~(tap[d].negotiationBitIndex < NEGOTIATION_BITS /\ ~tap[d].roleKnown)
  /\ ~tap[d].roleKnown
  /\ LET seed == Lcg(tap[d].randomSeed)
         myTieBreaker == TieBreakerBit(seed)
     IN  tap' = [ tap EXCEPT ![d] = [ @ EXCEPT !.randomSeed = seed,
                                              !.myTieBreaker = myTieBreaker,
                                              !.driving = ~myTieBreaker,
                                              !.postLoop = TRUE,
                                              !.pc = "tiesample" ] ]
  /\ UNCHANGED notStoreVars

\* peerTieBreaker = readLine()
NegTieSample(d) ==
  /\ tap[d].pc = "tiesample"
  /\ \/ PeerDone(d)
     \/ tap[Peer(d)].pc \in { "tiesample", "tiehold" }
  /\ tap' = [ tap EXCEPT ![d] = [ @ EXCEPT !.peerTieBreaker = readLine(tap),
                                           !.pc = "tiehold" ] ]
  /\ UNCHANGED notStoreVars

\* release, decide the role, return in Connected
NegTieRelease(d) ==
  /\ tap[d].pc = "tiehold"
  /\ \/ PeerDone(d)
     \/ tap[Peer(d)].pc = "tiehold"
  /\ tap' = [ tap EXCEPT ![d] =
                [ @ EXCEPT !.driving = FALSE,
                           !.isMaster = TieBreakRole(uid[d], tap[d].myTieBreaker,
                                                     tap[d].peerTieBreaker),
                           !.roleKnown = TRUE,
                           !.state = "Connected",
                           !.negotiationJustCompleted = TRUE,
                           !.pc = "idle" ] ]
  /\ UNCHANGED notStoreVars

\* micros() when the TapLink constructors ran
BootMicros == { U32(0), U32(65536) }

\* two devices with distinct identifiers, each having seen the other's
\* presence pulse
InitNeg ==
  /\ uid \in { u \in [ Devices -> Ids ] : u[1] # u[2] }
  /\ \E m \in [ Devices -> BootMicros ] :
       tap = [ d \in Devices |->
                 [ TapConstructed(m[d], uid[d]) EXCEPT !.state = "Detecting" ] ]
  /\ usb = UsbIdle
  /\ ExtIdle
  /\ powered = FALSE
  /\ image = ZeroImage
  /\ dirty = FALSE
  /\ lastLinkIndex = 0
  /\ linkCountChanged = FALSE
  /\ nvm = MemSet(SizeofPersistImageV1, 255)
  /\ lastOp = Op("init", ZeroId, TRUE)

NextNeg ==
  \/ \E d \in Devices : StartNegotiation(d)
  \/ \E d \in Devices : NegDrive(d)
  \/ \E d \in Devices : NegSample(d)
  \/ \E d \in Devices : NegRelease(d)
  \/ \E d \in Devices : NegTieDrive(d)
  \/ \E d \in Devices : NegTieSample(d)
  \/ \E d \in Devices : NegTieRelease(d)

SpecNeg == InitNeg /\ [][NextNeg]_vars

\* the steps of device d: its main loop calls TapLink::poll again and again
\* (Application::loop), and inside startNegotiation and pollNegotiation the
\* code runs on without waiting for the peer
DeviceStep(d) ==
  \/ StartNegotiation(d)
  \/ NegDrive(d)
  \/ NegSample(d)
  \/ NegRelease(d)
  \/ NegTieDrive(d)
  \/ NegTieSample(d)
  \/ NegTieRelease(d)

\* both main loops keep running
SpecNegLive ==
  InitNeg /\ [][NextNeg]_vars /\ \A d \in Devices : WF_vars(DeviceStep(d))

(***************************************************************************)
(* The microsecond clock (uint32_t, as four little-endian bytes) and       *)
(* TapLink::elapsedMicros.                                                 *)
(***************************************************************************)
UINT32_MAX == << 255, 255, 255, 255 >>

Lo16(b) == b[1] + 256 * b[2]

Hi16(b) == b[3] + 256 * b[4]

FromHalves(l, h) == << l % 256, l \div 256, h % 256, h \div 256 >>

\* a < b on uint32_t
U32Less(a, b) ==
  \/ Hi16(a) < Hi16(b)
  \/ Hi16(a) = Hi16(b) /\ Lo16(a) < Lo16(b)

\* a + b on uint32_t
U32Add(a, b) ==
  LET lo == Lo16(a) + Lo16(b)
      hi == Hi16(a) + Hi16(b) + (lo \div 65536)
  IN  FromHalves(lo % 65536, hi % 65536)

\* a - b on uint32_t
U32Sub(a, b) ==
  LET lo     == Lo16(a) - Lo16(b)
      borrow == IF lo < 0 THEN 1 ELSE 0
      hi     == Hi16(a) - Hi16(b) - borrow
  IN  FromHalves((lo + 65536) % 65536, (hi + 65536) % 65536)

\* elapsedMicros whose overflow branch leaves out the + 1
elapsedMicros_noPlusOne(now, startTime) ==
  IF ~U32Less(now, startTime)
  THEN U32Sub(now, startTime)
  ELSE U32Add(U32Sub(UINT32_MAX, startTime), now)

\* TapLink::elapsedMicros; now: the value micros() returns in the call
elapsedMicros(now, startTime) ==
  IF ~U32Less(now, startTime)
  THEN U32Sub(now, startTime)
  ELSE U32Add(U32Add(U32Sub(UINT32_MAX, startTime), now), U32(1))

(***************************************************************************)
(* Command protocol of the EVAL build: byte framing and the slave's        *)
(* classification of a LOW interval.                                       *)
(***************************************************************************)
CMD_TIMEOUT_US == 100000

StartPulseMinUs == 3000

TapCommand == [ NONE |-> 0, CHECK_READY |-> 1, REQUEST_ID |-> 2, SEND_ID |-> 3 ]

TapResponse == [ NONE |-> 0, ACK |-> 6, NAK |-> 21 ]

\* sendByte: the level of the line in each of the 8 bit slots, MSB first
\* (TRUE: released, HIGH; FALSE: driven LOW)
sendByte(byte) == [ k \in 1..8 |-> ((byte \div (2 ^ (8 - k))) % 2) = 1 ]

\* the three samples a receiver takes in each slot of a byte being sent
Sampled(levels) == [ k \in 1..8 |-> << levels[k], levels[k], levels[k] >> ]

\* the samples of a line nobody drives
IdleLine == Sampled([ k \in 1..8 |-> TRUE ])

\* receiveByte: majority vote of the three samples of each slot, MSB first;
\* timeoutUs is not used and the result is always true
receiveByte(samples, timeoutUs) ==
  LET highCount(k) == (IF samples[k][1] THEN 1 ELSE 0)
                      + (IF samples[k][2] THEN 1 ELSE 0)
                      + (IF samples[k][3] THEN 1 ELSE 0)
      bit(k) == IF highCount(k) >= 2 THEN 1 ELSE 0
  IN  [ ok   |-> TRUE,
        byte |-> bit(1) * 128 + bit(2) * 64 + bit(3) * 32 + bit(4) * 16
                 + bit(5) * 8 + bit(6) * 4 + bit(7) * 2 + bit(8) ]

\* TapLink::slaveReceiveCommand; t: the object, startTime: micros() when the
\* call starts, highAt: micros() when the line is read HIGH again, samples:
\* what the line carries in the 8 slots after the turnaround
slaveReceiveCommand(t, startTime, highAt, samples) ==
  IF ~t.roleKnown \/ t.isMaster THEN TapCommand.NONE
  ELSE IF t.state # "Connected" THEN TapCommand.NONE
  ELSE LET pulseLength == elapsedMicros(highAt, startTime)
           rx == receiveByte(samples, CMD_TIMEOUT_US)
       IN  IF U32Less(U32(CMD_TIMEOUT_US), pulseLength) THEN TapCommand.NONE
           ELSE IF U32Less(pulseLength, U32(StartPulseMinUs)) THEN TapCommand.NONE
           ELSE IF ~rx.ok THEN TapCommand.NONE
           ELSE rx.byte

(***************************************************************************)
(* The two functions applied to drawn arguments.                           *)
(***************************************************************************)
\* micros() at the start of a measurement
StartTimes ==
  { U32(0), U32(1), U32(65535), << 255, 255, 255, 127 >>, << 0, 0, 0, 128 >>,
    << 47, 248, 255, 255 >>, << 254, 255, 255, 255 >>, UINT32_MAX }

\* microseconds that pass until the clock is read again
Durations ==
  { U32(0), U32(1), U32(1500), U32(2000), U32(2500), U32(3000), U32(4500),
    U32(5000), U32(100000), U32(100001), << 0, 0, 0, 128 >>, UINT32_MAX }

\* microseconds of the peer's LOW pulse that had passed when the slave's tick
\* first saw the line LOW
Offsets == { 0, 500, 2500 }

\* a slave in Connected
SlaveConnected ==
  [ TapConstructed(U32(0), IdTable[1]) EXCEPT !.state = "Connected",
                                             !.roleKnown = TRUE ]

InitFn ==
  /\ uid = [ d \in Devices |-> IdTable[d] ]
  /\ tap = [ d \in Devices |-> TapConstructed(U32(0), uid[d]) ]
  /\ usb = UsbIdle
  /\ app = AppConstructed(FALSE)
  /\ hal = HalBoot
  /\ bat = BatConstructed
  /\ \E s \in StartTimes, d \in Durations, o \in Offsets :
       calc = [ fn |-> "none", startTime |-> s, duration |-> d, offset |-> o,
                now |-> U32Add(s, d) ]
  /\ powered = FALSE
  /\ image = ZeroImage
  /\ dirty = FALSE
  /\ lastLinkIndex = 0
  /\ linkCountChanged = FALSE
  /\ nvm = MemSet(SizeofPersistImageV1, 255)
  /\ lastOp = Op("init", ZeroId, TRUE)

\* elapsedMicros(startTime) called when the clock reads now
ElapsedMicros ==
  /\ calc.fn = "none"
  /\ calc' = [ fn |-> "elapsedMicros", startTime |-> calc.startTime,
               duration |-> calc.duration, offset |-> calc.offset,
               now |-> calc.now,
               result |-> elapsedMicros(calc.now, calc.startTime) ]
  /\ UNCHANGED << uid, tap, usb, app, hal, bat, storeVars, lastOp >>

\* slaveReceiveCommand called by a slave whose tick saw the line LOW offset
\* microseconds into the peer's pulse; the pulse ends duration microseconds
\* later and the peer then sends cmd
SlaveReceiveCommand(cmd) ==
  /\ calc.fn = "none"
  /\ calc' = [ fn |-> "slaveReceiveCommand", startTime |-> calc.startTime,
               duration |-> calc.duration, offset |-> calc.offset,
               now |-> calc.now, cmd |-> cmd,
               result |-> slaveReceiveCommand(SlaveConnected, calc.startTime,
                                              calc.now, Sampled(sendByte(cmd))) ]
  /\ UNCHANGED << uid, tap, usb, app, hal, bat, storeVars, lastOp >>

NextFn ==
  \/ ElapsedMicros
  \/ \E cmd \in { TapCommand.CHECK_READY, TapCommand.REQUEST_ID,
                  TapCommand.SEND_ID } : SlaveReceiveCommand(cmd)

SpecFn == InitFn /\ [][NextFn]_vars

(***************************************************************************)
(* Application and TapLink of the EVAL build, seen from device 1: one step *)
(* is one iteration of Application::loop.  The peer is the environment: it *)
(* decides what device 1 reads from the line.                              *)
(***************************************************************************)
PRESENCE_PULSE_US == 2000

PULSE_INTERVAL_US == 50000

DEBOUNCE_TIME_US == 5000

MAX_COMMAND_FAILURES == 3

SLAVE_IDLE_TIMEOUT_US == 2000000

COMMAND_INTERVAL_MS == 500

\* milliseconds of the clock from one iteration that is a step of the model
\* to the next (iterations in between find the line idle and nothing due)
TickMs == 500

\* the clock stops the model here
MaxMillis == 3500

\* the Storage object as one value
StoreOf ==
  [ image |-> image, dirty |-> dirty, nvm |-> nvm,
    lastLinkIndex |-> lastLinkIndex, linkCountChanged |-> linkCountChanged ]

\* Storage::saveNow on that value
saveNow(s) ==
  LET img == StampHeader(s.image)
  IN  [ s EXCEPT !.image = img, !.nvm = writeToNvm(s.nvm, img), !.dirty = FALSE ]

\* Storage::loop
storageLoop(s, elapsed) == IF s.dirty /\ elapsed THEN saveNow(s) ELSE s

\* Storage::incrementTapCount
incrementTapCount(s) ==
  [ s EXCEPT !.image.payload.totalTapCount = U32Inc(@), !.dirty = TRUE ]

\* Storage::saveTapCountOnly
saveTapCountOnly(s) ==
  LET img == StampCrc(s.image)
  IN  [ s EXCEPT !.image = img, !.nvm = saveTapCountOnlyNvm(s.nvm, img),
                 !.dirty = FALSE ]

\* Storage::addLink followed by saveLinkOnly when it returned true
addLinkAndSave(s, peerId) ==
  IF hasLink(s.image.payload, peerId) THEN s
  ELSE LET idx     == addLinkIdx(s.image.payload)
           changed == ~(s.image.payload.linkCount >= MAX_LINKS)
           img     == StampCrc([ s.image EXCEPT !.payload = addLinkPayload(@, peerId) ])
       IN  [ s EXCEPT !.image = img,
                      !.nvm = saveLinkOnlyNvm(s.nvm, img, idx, changed),
                      !.lastLinkIndex = idx,
                      !.linkCountChanged = FALSE,
                      !.dirty = FALSE ]

\* TapLink::pollNegotiation, the loop over the UID bits; peerLow[i + 1]: the
\* peer drives the line LOW in bit slot i
RECURSIVE NegotiationLoop(_, _, _)
NegotiationLoop(t, selfId, peerLow) ==
  IF t.negotiationBitIndex < NEGOTIATION_BITS /\ ~t.roleKnown
  THEN LET myBit     == MyBit(selfId, t.negotiationBitIndex)
           lineIsLow == ~myBit \/ peerLow[t.negotiationBitIndex + 1]
           won       == myBit /\ lineIsLow
       IN  NegotiationLoop([ t EXCEPT !.isMaster = IF won THEN TRUE ELSE @,
                                      !.roleKnown = IF won THEN TRUE ELSE @,
                                      !.negotiationBitIndex = @ + 1 ],
                           selfId, peerLow)
  ELSE t

\* TapLink::pollNegotiation; peerTieLow: the peer drives LOW in the
\* tie-breaker slot
pollNegotiation(t, selfId, peerLow, peerTieLow) ==
  LET t1   == NegotiationLoop(t, selfId, peerLow)
      seed == Lcg(t1.randomSeed)
      myTieBreaker   == TieBreakerBit(seed)
      peerTieBreaker == myTieBreaker /\ ~peerTieLow
      t2   == IF ~t1.roleKnown
              THEN [ t1 EXCEPT !.randomSeed = seed,
                               !.myTieBreaker = myTieBreaker,
                               !.peerTieBreaker = peerTieBreaker,
                               !.postLoop = TRUE,
                               !.isMaster = TieBreakRole(selfId, myTieBreaker,
                                                         peerTieBreaker),
                               !.roleKnown = TRUE ]
              ELSE t1
  IN  [ t2 EXCEPT !.state = "Connected", !.negotiationJustCompleted = TRUE ]

\* TapLink::startNegotiation (the synchronisation pulses leave no state)
startNegotiation(t) ==
  [ t EXCEPT !.state = "Negotiating", !.negotiationBitIndex = 0,
             !.roleKnown = FALSE, !.isMaster = FALSE, !.driving = FALSE ]

\* TapLink::poll, case NoConnection, that pulses whenever the line is HIGH
pollNoConnection_noInterval(t, a, now, in) ==
  IF in.lineLow
  THEN [ t |-> [ t EXCEPT !.state = "Detecting" ],
         a |-> [ a EXCEPT !.stateStartTime = now ] ]
  ELSE [ t |-> [ t EXCEPT !.driving = TRUE ],
         a |-> [ a EXCEPT !.isPulsing = TRUE, !.pulseStartTime = now ] ]

\* TapLink::poll, case NoConnection (tap_link.cpp 83-95), with
\* sendPresencePulse (180-187)
pollNoConnection(t, a, now, in) ==
  IF in.lineLow
  THEN [ t |-> [ t EXCEPT !.state = "Detecting" ],
         a |-> [ a EXCEPT !.stateStartTime = now ] ]
  ELSE IF now - a.lastPulseTime >= PULSE_INTERVAL_US
  THEN [ t |-> [ t EXCEPT !.driving = TRUE ],
         a |-> [ a EXCEPT !.isPulsing = TRUE, !.pulseStartTime = now ] ]
  ELSE [ t |-> t, a |-> a ]

\* TapLink::poll, case Detecting, that takes a short LOW for noise and
\* returns to NoConnection
pollDetecting_rejectsPulse(t, a, now, in) ==
  IF ~in.lineLow
  THEN [ t |-> [ t EXCEPT !.state = "NoConnection" ], a |-> a ]
  ELSE IF now - a.stateStartTime >= DEBOUNCE_TIME_US
  THEN [ t |-> startNegotiation([ t EXCEPT !.connectionJustDetected = TRUE ]),
         a |-> a ]
  ELSE [ t |-> t, a |-> a ]

\* TapLink::poll, case Detecting (tap_link.cpp 97-113)
pollDetecting(t, a, now, in) ==
  IF ~in.lineLow
  THEN [ t |-> startNegotiation([ t EXCEPT !.connectionJustDetected = TRUE ]),
         a |-> a ]
  ELSE IF now - a.stateStartTime >= DEBOUNCE_TIME_US
  THEN [ t |-> startNegotiation([ t EXCEPT !.connectionJustDetected = TRUE ]),
         a |-> a ]
  ELSE [ t |-> t, a |-> a ]

\* TapLink::poll of the EVAL build; now: the microsecond clock, in: what the
\* line carries during the call.  The result is the TapLink object: the
\* fields kept in tap (t) and those kept in app (a).
evalPoll(t, a, selfId, now, in) ==
  IF a.isPulsing
  THEN IF now - a.pulseStartTime >= PRESENCE_PULSE_US
       THEN [ t |-> [ t EXCEPT !.driving = FALSE ],
              a |-> [ a EXCEPT !.isPulsing = FALSE, !.lastPulseTime = now ] ]
       ELSE [ t |-> t, a |-> a ]
  ELSE CASE t.state = "NoConnection" -> pollNoConnection(t, a, now, in)
         [] t.state = "Detecting" -> pollDetecting(t, a, now, in)
         [] t.state = "Negotiating" ->
              [ t |-> pollNegotiation(t, selfId, in.peerLow, in.peerTieLow),
                a |-> a ]
         [] OTHER -> [ t |-> t, a |-> a ]

\* TapLink::reset of the EVAL build
evalReset(t, a) ==
  [ t |-> [ t EXCEPT !.state = "NoConnection",
                     !.connectionJustDetected = FALSE,
                     !.negotiationJustCompleted = FALSE,
                     !.roleKnown = FALSE,
                     !.isMaster = FALSE,
                     !.negotiationBitIndex = 0,
                     !.driving = FALSE ],
    a |-> [ a EXCEPT !.isPulsing = FALSE, !.peerReady = FALSE,
                     !.commandFailures = 0 ] ]

\* TapLink::masterSendCommand; samples: what the line carries while the
\* response byte is read
masterSendCommand(t, a, cmd, samples) ==
  IF ~t.roleKnown \/ ~t.isMaster
  THEN [ t |-> t, a |-> a, response |-> TapResponse.NONE ]
  ELSE IF t.state # "Connected"
  THEN [ t |-> t, a |-> a, response |-> TapResponse.NONE ]
  ELSE LET rx == receiveByte(samples, CMD_TIMEOUT_US)
           failures == (a.commandFailures + 1) % 256
       IN  IF ~rx.ok
           THEN IF failures >= MAX_COMMAND_FAILURES
                THEN [ t |-> [ t EXCEPT !.state = "NoConnection",
                                        !.roleKnown = FALSE ],
                       a |-> [ a EXCEPT !.commandFailures = failures,
                                        !.peerReady = FALSE ],
                       response |-> TapResponse.NONE ]
                ELSE [ t |-> t,
                       a |-> [ a EXCEPT !.commandFailures = failures ],
                       response |-> TapResponse.NONE ]
           ELSE [ t |-> t,
                  a |-> [ a EXCEPT !.commandFailures = 0,
                                   !.peerReady = IF cmd = TapCommand.CHECK_READY
                                                 THEN rx.byte = TapResponse.ACK
                                                 ELSE @ ],
                  response |-> rx.byte ]

\* TapLink::masterRequestId (declared in tap_link.h; after the protocol
\* description: REQUEST_ID succeeds when the response is ACK, and the 12
\* bytes that follow are the peer identifier)
masterRequestId(t, a, samples, payload) ==
  LET r == masterSendCommand(t, a, TapCommand.REQUEST_ID, samples)
  IN  [ t |-> r.t, a |-> r.a, ok |-> r.response = TapResponse.ACK,
        peerId |-> payload ]

\* TapLink::masterSendId (declared in tap_link.h; after the protocol
\* description: SEND_ID succeeds when the response is ACK, and with both
\* directions done the exchange is complete)
masterSendId(t, a, samples) ==
  LET r  == masterSendCommand(t, a, TapCommand.SEND_ID, samples)
      ok == r.response = TapResponse.ACK
  IN  [ t |-> r.t,
        a |-> IF ok THEN [ r.a EXCEPT !.idExchangeComplete = TRUE ] ELSE r.a,
        ok |-> ok ]

\* Application::onNegotiationComplete that increments without saving
onNegotiationComplete_noSave(a, s, nowMs) ==
  [ a |-> [ a EXCEPT !.connectionDetectedTime = nowMs, !.lastCommandTime = nowMs ],
    s |-> incrementTapCount(s) ]

\* Application::onNegotiationComplete
onNegotiationComplete(a, s, nowMs) ==
  [ a |-> [ a EXCEPT !.connectionDetectedTime = nowMs, !.lastCommandTime = nowMs ],
    s |-> saveTapCountOnly(incrementTapCount(s)) ]

\* Application::handleMasterCommands, the outcome of a CHECK_READY
\* (application.cpp 208-209 and 221-223): the store is not touched
afterCheckReady(c, s) ==
  [ t |-> c.t, a |-> c.a, s |-> s, out |-> << TapCommand.CHECK_READY >>,
    link |-> "none" ]

\* Application::handleMasterCommands after masterSendId (application.cpp
\* 213-219): addLink is called when both directions succeeded, saveLinkOnly
\* when it returned true
afterSendId(d, s, peerId) ==
  IF ~d.ok
  THEN [ t |-> d.t, a |-> d.a, s |-> s,
         out |-> << TapCommand.REQUEST_ID, TapCommand.SEND_ID >>, link |-> "none" ]
  ELSE [ t |-> d.t, a |-> d.a, s |-> addLinkAndSave(s, peerId),
         out |-> << TapCommand.REQUEST_ID, TapCommand.SEND_ID >>,
         link |-> IF hasLink(s.image.payload, peerId) THEN "existing"
                  ELSE "addedNew" ]

\* Application::handleMasterCommands after masterRequestId (application.cpp
\* 211-213)
afterRequestId(q, s, in) ==
  IF ~q.ok
  THEN [ t |-> q.t, a |-> q.a, s |-> s, out |-> << TapCommand.REQUEST_ID >>,
         link |-> "none" ]
  ELSE afterSendId(masterSendId(q.t, q.a, in.samples2), s, q.peerId)

\* Application::handleMasterCommands, the end of a round: the time of the
\* command is kept
commandSent(r, nowMs) ==
  [ t |-> r.t, a |-> [ r.a EXCEPT !.lastCommandTime = nowMs ], s |-> r.s,
    sent |-> TRUE, cmd |-> TapCommand.NONE, out |-> r.out, link |-> r.link,
    resp |-> TapResponse.NONE ]

\* an iteration's role commands that sent nothing and touched no store
nothingSent(t, a, s, cmd) ==
  [ t |-> t, a |-> a, s |-> s, sent |-> FALSE, cmd |-> cmd, out |-> << >>,
    link |-> "none", resp |-> TapResponse.NONE ]

\* Application::handleMasterCommands that sends in every iteration
handleMasterCommands_noThrottle(t, a, s, nowMs, in) ==
  commandSent(afterCheckReady(masterSendCommand(t, a, TapCommand.CHECK_READY,
                                                in.samples), s), nowMs)

\* Application::handleMasterCommands; in.samples, in.samples2: the line while
\* the response byte of the first and of the second command is read,
\* in.peerId: the 12 bytes that follow an ACK to REQUEST_ID
handleMasterCommands(t, a, s, nowMs, in) ==
  IF nowMs - a.lastCommandTime < COMMAND_INTERVAL_MS
  THEN nothingSent(t, a, s, TapCommand.NONE)
  ELSE IF ~a.peerReady
  THEN commandSent(afterCheckReady(masterSendCommand(t, a, TapCommand.CHECK_READY,
                                                     in.samples), s), nowMs)
  ELSE IF ~a.idExchangeComplete
  THEN commandSent(afterRequestId(masterRequestId(t, a, in.samples, in.peerId),
                                  s, in), nowMs)
  ELSE commandSent(afterCheckReady(masterSendCommand(t, a, TapCommand.CHECK_READY,
                                                     in.samples), s), nowMs)

\* TapLink::slaveHasCommand
slaveHasCommand(t, lineLow) ==
  IF ~t.roleKnown \/ t.isMaster THEN FALSE
  ELSE IF t.state # "Connected" THEN FALSE
  ELSE lineLow

\* TapLink::slaveSendResponse: the byte put on the line, NONE when the call
\* returns without sending
slaveSendResponse(t, response) ==
  IF ~t.roleKnown \/ t.isMaster THEN TapResponse.NONE
  ELSE IF t.state # "Connected" THEN TapResponse.NONE
  ELSE response

\* TapLink::slaveHandleRequestId (declared in tap_link.h; after the protocol
\* description: the slave sends ACK and its selfId)
slaveHandleRequestId(t) == slaveSendResponse(t, TapResponse.ACK)

\* TapLink::slaveHandleSendId (declared in tap_link.h; after the protocol
\* description: 12 bytes are read; on success the slave sends ACK and
\* returns the peer identifier, on failure it sends NAK); in.idOk: the 12
\* bytes arrived, in.peerId: what they were
slaveHandleSendId(t, in) ==
  [ ok |-> in.idOk, peerId |-> in.peerId,
    resp |-> slaveSendResponse(t, IF in.idOk THEN TapResponse.ACK
                                  ELSE TapResponse.NAK) ]

\* Application::handleSlaveCommands, case SEND_ID (application.cpp 244-253)
\* with h the result of slaveHandleSendId
afterSlaveSendId(h, t, a, s) ==
  [ t |-> t, a |-> a,
    s |-> IF h.ok THEN addLinkAndSave(s, h.peerId) ELSE s,
    sent |-> FALSE, cmd |-> TapCommand.SEND_ID, out |-> << >>,
    link |-> IF ~h.ok THEN "none"
             ELSE IF hasLink(s.image.payload, h.peerId) THEN "existing"
             ELSE "addedNew",
    resp |-> h.resp ]

\* a command answered with one byte and no other effect
answered(t, a, s, cmd, resp) ==
  [ t |-> t, a |-> a, s |-> s, sent |-> FALSE, cmd |-> cmd, out |-> << >>,
    link |-> "none", resp |-> resp ]

\* Application::handleSlaveCommands that answers whatever it received with NAK
afterReceiveCommand_alwaysNak(cmd, t, a, s, in) ==
  answered(t, a, s, cmd, slaveSendResponse(t, TapResponse.NAK))

\* Application::handleSlaveCommands, the switch over the received command
\* (application.cpp 235-263)
afterReceiveCommand(cmd, t, a, s, in) ==
  IF cmd = TapCommand.CHECK_READY
  THEN answered(t, a, s, cmd, slaveSendResponse(t, TapResponse.ACK))
  ELSE IF cmd = TapCommand.REQUEST_ID
  THEN answered(t, a, s, cmd, slaveHandleRequestId(t))
  ELSE IF cmd = TapCommand.SEND_ID
  THEN afterSlaveSendId(slaveHandleSendId(t, in), t, a, s)
  ELSE IF cmd = TapCommand.NONE
  THEN nothingSent(t, a, s, cmd)
  ELSE answered(t, a, s, cmd, slaveSendResponse(t, TapResponse.NAK))

\* Application::handleSlaveCommands; in.lowUs: microseconds the line stays
\* LOW after the call of slaveReceiveCommand, in.cmd: the byte the peer
\* sends
handleSlaveCommands(t, a, s, in) ==
  IF ~slaveHasCommand(t, in.lineLow)
  THEN nothingSent(t, a, s, TapCommand.NONE)
  ELSE afterReceiveCommand(slaveReceiveCommand(t, U32(0), U32(in.lowUs),
                                               Sampled(sendByte(in.cmd))),
                           t, a, s, in)

\* Application::loop, the role commands (application.cpp 74-84)
loopCommands(t, a, s, nowMs, in) ==
  IF t.state = "Connected" /\ t.roleKnown
  THEN IF t.isMaster THEN handleMasterCommands(t, a, s, nowMs, in)
       ELSE handleSlaveCommands(t, a, s, in)
  ELSE nothingSent(t, a, s, TapCommand.NONE)

\* TapLink::isConnectionDetected that leaves the flag set
isConnectionDetected_sticky(t) == [ t |-> t, ret |-> t.connectionJustDetected ]

\* TapLink::isConnectionDetected: the flag is returned and cleared
isConnectionDetected(t) ==
  [ t |-> [ t EXCEPT !.connectionJustDetected = FALSE ],
    ret |-> t.connectionJustDetected ]

\* TapLink::isNegotiationComplete: the flag is returned and cleared
isNegotiationComplete(t) ==
  [ t |-> [ t EXCEPT !.negotiationJustCompleted = FALSE ],
    ret |-> t.negotiationJustCompleted ]

\* the iteration's result with what the two event queries returned
loopOutcome(v, detected, completed) ==
  [ t |-> v.t, a |-> v.a, s |-> v.s, sent |-> v.sent, cmd |-> v.cmd,
    out |-> v.out, link |-> v.link, resp |-> v.resp,
    detected |-> detected, completed |-> completed ]

\* Application::loop after the event queries (application.cpp 69-84): n is
\* the application and the store after onNegotiationComplete
loopEvents(t, n, nowMs, in) == loopCommands(t, n.a, n.s, nowMs, in)

\* Application::loop after isNegotiationComplete (application.cpp 69-72);
\* c: what it returned, detected: what isConnectionDetected returned
loopCompleted(c, detected, a, s1, nowMs, in) ==
  loopOutcome(loopEvents(c.t,
                         IF c.ret THEN onNegotiationComplete(a, s1, nowMs)
                         ELSE [ a |-> a, s |-> s1 ],
                         nowMs, in),
              detected, c.ret)

\* Application::loop after isConnectionDetected (application.cpp 63-66)
loopDetected(d, a, s1, nowMs, in) ==
  loopCompleted(isNegotiationComplete(d.t), d.ret, a, s1, nowMs, in)

\* Application::loop after Storage::loop and TapLink::poll
loopAfterPoll(p, s1, nowMs, in) ==
  loopDetected(isConnectionDetected(p.t), p.a, s1, nowMs, in)

\* a byte that is no TapCommand
UnknownCommand == 127

\* what the line can carry during one iteration: with the peer touching,
\* LOW or HIGH at the poll, the peer's bits or a released line during the
\* negotiation, any answer; without it, an idle line.  A new touch is seen
\* only while the tap counter is below MaxTaps.
LineInputs ==
  LET detecting == tap[1].state \in { "NoConnection", "Detecting" } /\ ~app.isPulsing
      negotiating == tap[1].state = "Negotiating" /\ ~app.isPulsing
      master == tap[1].state = "Connected" /\ tap[1].isMaster
      slave == tap[1].state = "Connected" /\ ~tap[1].isMaster
      mayTouch == hal.peerPresent
                  /\ (tap[1].state = "NoConnection"
                        => image.payload.totalTapCount # U32(MaxTaps))
      inStep == [ i \in 1..NEGOTIATION_BITS |-> ~MyBit(uid[2], i - 1) ]
      released == [ i \in 1..NEGOTIATION_BITS |-> FALSE ]
  IN  { in \in [ lineLow    : IF mayTouch /\ (detecting \/ slave)
                              THEN BOOLEAN ELSE { FALSE },
                 peerLow    : IF hal.peerPresent /\ negotiating
                              THEN { inStep, released } ELSE { released },
                 peerTieLow : IF hal.peerPresent /\ negotiating
                              THEN BOOLEAN ELSE { FALSE },
                 samples    : IF hal.peerPresent /\ master
                              THEN { Sampled(sendByte(TapResponse.ACK)), IdleLine }
                              ELSE { IdleLine },
                 samples2   : IF hal.peerPresent /\ master /\ app.peerReady
                                 /\ ~app.idExchangeComplete
                              THEN { Sampled(sendByte(TapResponse.ACK)), IdleLine }
                              ELSE { IdleLine },
                 peerId     : { uid[2] },
                 lowUs      : IF slave THEN { 2500, 4500 } ELSE { 4500 },
                 cmd        : IF slave
                              THEN { TapCommand.CHECK_READY, TapCommand.REQUEST_ID,
                                     TapCommand.SEND_ID, UnknownCommand }
                              ELSE { TapCommand.CHECK_READY },
                 idOk       : IF slave THEN BOOLEAN ELSE { FALSE },
                 elapsed    : IF dirty THEN BOOLEAN ELSE { FALSE } ] :
          in.lineLow \/ (in.lowUs = 4500 /\ in.cmd = TapCommand.CHECK_READY
                           /\ ~in.idOk) }

\* the result v of an iteration that began at nowMs becomes the state
AppLoopDone(v, nowMs, in, step) ==
  /\ tap' = [ tap EXCEPT ![1] = v.t ]
  /\ app' = v.a
  /\ image' = v.s.image
  /\ dirty' = v.s.dirty
  /\ nvm' = v.s.nvm
  /\ lastLinkIndex' = v.s.lastLinkIndex
  /\ linkCountChanged' = v.s.linkCountChanged
  /\ hal' = [ hal EXCEPT
                !.millis = @ + step,
                !.micros = (hal.millis + step) * 1000,
                !.roundAt = IF v.sent THEN nowMs ELSE @,
                !.heardAt = IF v.completed \/ v.cmd # TapCommand.NONE
                            THEN nowMs ELSE @,
                !.unanswered = IF v.completed THEN 0
                               ELSE IF ~v.sent THEN @
                               ELSE IF hal.peerPresent THEN 0
                               ELSE IF @ < MAX_COMMAND_FAILURES THEN @ + 1
                               ELSE @ ]
  /\ lastOp' = [ op |-> "appLoop", peer |-> ZeroId, ret |-> v.completed,
                 why |-> "", now |-> nowMs, sent |-> v.sent, cmd |-> v.cmd,
                 detected |-> v.detected, out |-> v.out, link |-> v.link,
                 resp |-> v.resp, lineLow |-> in.lineLow,
                 ack1 |-> (in.samples = Sampled(sendByte(TapResponse.ACK))),
                 ack2 |-> (in.samples2 = Sampled(sendByte(TapResponse.ACK))) ]

\* Application::loop of the EVAL build.  No serial line arrives in the
\* iteration (HandleLine is the step for one that does).
AppLoop(in) ==
  /\ powered
  /\ hal.millis < MaxMillis
  /\ AppLoopDone(loopAfterPoll(evalPoll(tap[1], app, uid[1], hal.micros, in),
                               storageLoop(StoreOf, in.elapsed), hal.millis, in),
                 hal.millis, in, TickMs)
  /\ UNCHANGED << uid, usb, bat, calc, powered >>

\* TapLink::reset called on the engine of device 1 to end a connection
Reset ==
  /\ powered
  /\ tap[1].state = "Connected"
  /\ LET r == evalReset(tap[1], app)
     IN  /\ tap' = [ tap EXCEPT ![1] = r.t ]
         /\ app' = r.a
  /\ hal' = [ hal EXCEPT !.unanswered = 0 ]
  /\ lastOp' = Op("reset", ZeroId, TRUE)
  /\ UNCHANGED << uid, usb, bat, calc, storeVars >>

\* the peer touches the contact
PeerJoin ==
  /\ ~hal.peerPresent
  /\ tap[1].state = "NoConnection"
  /\ hal' = [ hal EXCEPT !.peerPresent = TRUE ]
  /\ lastOp' = Op("peerJoin", ZeroId, TRUE)
  /\ UNCHANGED << uid, tap, usb, app, bat, calc, storeVars >>

\* the peer is removed: the line stays idle HIGH
PeerLeave ==
  /\ hal.peerPresent
  /\ tap[1].state = "Connected"
  /\ hal' = [ hal EXCEPT !.peerPresent = FALSE ]
  /\ lastOp' = Op("peerLeave", ZeroId, TRUE)
  /\ UNCHANGED << uid, tap, usb, app, bat, calc, storeVars >>

\* the serial lines that arrive while the application runs
AppLines == { i \in DOMAIN LineTable : LineTable[i].line = W_CLEAR }

\* device 1 has the larger or the smaller identifier of the two; it has run
\* its constructors and the heap block of its TapLink held either value where
\* _idExchangeComplete lies
InitApp ==
  /\ uid \in { << IdTable[1], IdTable[2] >>, << IdTable[2], IdTable[1] >> }
  /\ tap = [ d \in Devices |-> TapConstructed(U32(0), uid[d]) ]
  /\ usb = UsbIdle
  /\ \E garbage \in BOOLEAN : app = AppConstructed(garbage)
  /\ hal = HalBoot
  /\ bat = BatConstructed
  /\ calc = CalcIdle
  /\ powered = FALSE
  /\ image = ZeroImage
  /\ dirty = FALSE
  /\ lastLinkIndex = 0
  /\ linkCountChanged = FALSE
  /\ nvm = MemSet(SizeofPersistImageV1, 255)
  /\ lastOp = Op("init", ZeroId, TRUE)

NextApp ==
  \/ Begin
  \/ \E in \in LineInputs : AppLoop(in)
  \/ \E i \in AppLines : HandleLine(i)
  \/ Reset
  \/ PeerJoin
  \/ PeerLeave

SpecApp == InitApp /\ [][NextApp]_vars

\* what the line of a device without a peer can carry during one iteration:
\* idle HIGH, LOW at a poll through a glitch, or LOW throughout through a
\* short to ground; nobody answers a command
LoneInputs ==
  LET detecting == tap[1].state \in { "NoConnection", "Detecting" } /\ ~app.isPulsing
      released == [ i \in 1..NEGOTIATION_BITS |-> FALSE ]
      shorted == [ i \in 1..NEGOTIATION_BITS |-> TRUE ]
  IN  [ lineLow    : IF detecting THEN BOOLEAN ELSE { FALSE },
        peerLow    : { released, shorted },
        peerTieLow : BOOLEAN,
        samples    : { IdleLine },
        samples2   : { IdleLine },
        peerId     : { ZeroId },
        lowUs      : { 4500 },
        cmd        : { TapCommand.CHECK_READY },
        idOk       : { FALSE },
        elapsed    : IF dirty THEN BOOLEAN ELSE { FALSE } ]

\* Application::loop of a device that nobody touches
NextLone ==
  \/ Begin
  \/ \E in \in LoneInputs : AppLoop(in)

SpecLone == InitApp /\ [][NextLone]_vars

(***************************************************************************)
(* The same loop with iterations half a COMMAND_INTERVAL_MS apart as well, *)
(* so that handleMasterCommands is called before its interval has passed.  *)
(***************************************************************************)
\* the milliseconds from one iteration that is a step to the next
RoundSteps == { TickMs \div 2, TickMs }

\* the clock stops this model here
MaxRoundMillis == 2250

\* the NVM of a device that has exchanged identifiers with the peer before
LinkedNvm(selfId, peerId) ==
  writeToNvm(MemSet(SizeofPersistImageV1, 255),
             StampHeader([ ZeroImage EXCEPT
                             !.payload = addLinkPayload([ ZeroPayload EXCEPT
                                                            !.selfId = selfId ],
                                                        peerId) ]))

\* device 1 has the larger identifier; its NVM is blank or holds the peer's
\* link from an earlier connection
InitRound ==
  /\ uid = << IdTable[1], IdTable[2] >>
  /\ tap = [ d \in Devices |-> TapConstructed(U32(0), uid[d]) ]
  /\ usb = UsbIdle
  /\ \E garbage \in BOOLEAN : app = AppConstructed(garbage)
  /\ hal = HalBoot
  /\ bat = BatConstructed
  /\ calc = CalcIdle
  /\ powered = FALSE
  /\ image = ZeroImage
  /\ dirty = FALSE
  /\ lastLinkIndex = 0
  /\ linkCountChanged = FALSE
  /\ nvm \in { MemSet(SizeofPersistImageV1, 255), LinkedNvm(uid[1], uid[2]) }
  /\ lastOp = Op("init", ZeroId, TRUE)

\* Application::loop of the EVAL build, the next step following after step ms
RoundLoop(in, step) ==
  /\ powered
  /\ hal.millis < MaxRoundMillis
  /\ AppLoopDone(loopAfterPoll(evalPoll(tap[1], app, uid[1], hal.micros, in),
                               storageLoop(StoreOf, in.elapsed), hal.millis, in),
                 hal.millis, in, step)
  /\ UNCHANGED << uid, usb, bat, calc, powered >>

NextRound ==
  \/ Begin
  \/ PeerJoin
  \/ \E in \in LineInputs, step \in RoundSteps : RoundLoop(in, step)

SpecRound == InitRound /\ [][NextRound]_vars

(***************************************************************************)
(* Application::loop of the EVAL build at the pace of the loop itself: one *)
(* step is one iteration, the clock is IOneWireHal::micros.  A peer may    *)
(* pull the line LOW in any iteration and a CLEAR line may arrive in any   *)
(* iteration.  The time the engine's own blocking calls take is not        *)
(* counted.                                                                *)
(***************************************************************************)
\* platform_delay_ms(1) at the end of Application::loop (application.cpp 97)
LoopDelayUs == 1000

\* Storage::writeToNvm: platform_delay_ms(1) after every 32 bytes (storage.cpp
\* 314-324); the time of the byte writes themselves comes on top
writeToNvmMicros == (SizeofPersistImageV1 \div 32) * 1000

\* cmdClear: platform_delay_ms(10) after the ack, then clearAll with its full
\* write (usb_serial.cpp 237-241)
cmdClearMicros == 10000 + writeToNvmMicros

\* the clock stops the model here
MaxPollMicros == 106000

\* iterations in Connected are followed for this long
MaxConnectedUs == 3000

\* serial lines that arrive while the loop is followed at this pace
MaxLines == 1

\* Storage::clearAll on the store as one value
clearAll(s) ==
  saveNow([ s EXCEPT !.image.payload = clearAllPayload(@), !.dirty = TRUE ])

\* what the line can carry during one iteration at this pace: LOW or HIGH
\* while the engine listens, the peer's bits during the negotiation, an idle
\* line in Connected
PollInputs ==
  LET listening == tap[1].state \in { "NoConnection", "Detecting" } /\ ~app.isPulsing
  IN  [ lineLow    : IF listening THEN BOOLEAN ELSE { FALSE },
        peerLow    : { [ i \in 1..NEGOTIATION_BITS |-> ~MyBit(uid[2], i - 1) ] },
        peerTieLow : { FALSE },
        samples    : { IdleLine },
        samples2   : { IdleLine },
        peerId     : { uid[2] },
        lowUs      : { 4500 },
        cmd        : { TapCommand.CHECK_READY },
        idOk       : { FALSE },
        elapsed    : { FALSE } ]

\* the result v of an iteration whose poll ran at now becomes the state;
\* line: the serial line handled in the iteration, 0 for none
PollLoopDone(v, now, in, line) ==
  /\ tap' = [ tap EXCEPT ![1] = v.t ]
  /\ app' = v.a
  /\ image' = v.s.image
  /\ dirty' = v.s.dirty
  /\ nvm' = v.s.nvm
  /\ lastLinkIndex' = v.s.lastLinkIndex
  /\ linkCountChanged' = v.s.linkCountChanged
  /\ hal' = [ hal EXCEPT
                !.micros = now + LoopDelayUs,
                !.millis = (now + LoopDelayUs) \div 1000,
                !.lowSince = IF ~app.isPulsing /\ v.a.isPulsing THEN now ELSE @,
                !.releasedAt = IF app.isPulsing /\ ~v.a.isPulsing THEN now ELSE @,
                !.pulseWidth = IF app.isPulsing /\ ~v.a.isPulsing
                               THEN now - hal.lowSince ELSE @,
                !.pulses = IF ~app.isPulsing /\ v.a.isPulsing THEN @ + 1 ELSE @,
                !.lines = IF line # 0 THEN @ + 1 ELSE @,
                !.disturbed = IF ~app.isPulsing /\ v.a.isPulsing THEN FALSE
                              ELSE IF app.isPulsing /\ line # 0 THEN TRUE
                              ELSE @ ]
  /\ lastOp' = [ op |-> "pollLoop", peer |-> ZeroId, ret |-> v.completed,
                 why |-> "", now |-> now, lineLow |-> in.lineLow,
                 detected |-> v.detected,
                 started |-> (~app.isPulsing /\ v.a.isPulsing),
                 released |-> (app.isPulsing /\ ~v.a.isPulsing),
                 line |-> line ]

\* Application::loop: Storage::loop (nothing is dirty), UsbCommandHandler::poll
\* with no line, TapLink::poll and what follows it
PollLoop(in) ==
  /\ powered
  /\ hal.micros < MaxPollMicros
  /\ tap[1].state = "Connected"
       => hal.micros < app.connectionDetectedTime * 1000 + MaxConnectedUs
  /\ PollLoopDone(loopAfterPoll(evalPoll(tap[1], app, uid[1], hal.micros, in),
                                storageLoop(StoreOf, in.elapsed),
                                hal.micros \div 1000, in),
                  hal.micros, in, 0)
  /\ UNCHANGED << uid, usb, bat, calc, powered >>

\* Application::loop in which UsbCommandHandler::poll hands the CLEAR line
\* LineTable[i] to handleLine before TapLink::poll runs
PollLoopClear(in, i) ==
  /\ powered
  /\ hal.lines < MaxLines
  /\ hal.micros < MaxPollMicros
  /\ tap[1].state = "Connected"
       => hal.micros < app.connectionDetectedTime * 1000 + MaxConnectedUs
  /\ PollLoopDone(loopAfterPoll(evalPoll(tap[1], app, uid[1],
                                         hal.micros + cmdClearMicros, in),
                                clearAll(storageLoop(StoreOf, in.elapsed)),
                                (hal.micros + cmdClearMicros) \div 1000, in),
                  hal.micros + cmdClearMicros, in, i)
  /\ usb' = handleLineOutcome(image.payload, uid[1], LineTable[i].line).resp
  /\ UNCHANGED << uid, bat, calc, powered >>

NextPoll ==
  \/ Begin
  \/ \E in \in PollInputs : PollLoop(in)
  \/ \E in \in PollInputs, i \in AppLines : PollLoopClear(in, i)

SpecPoll == InitUsb /\ [][NextPoll]_vars

(***************************************************************************)
(* The driveLow calls of the engine.  Each definition is the sequence of   *)
(* arguments a function passes to IOneWireHal::driveLow, in program order  *)
(* (TRUE drives the line LOW, FALSE releases it); the line is left as the  *)
(* last call sets it.  lastOp.drove is the sequence of the call.           *)
(***************************************************************************)
\* TapLink::sendStartPulse
sendStartPulse == << TRUE, FALSE >>

\* TapLink::sendByte: per bit, drive for a 0 or release for a 1, then release
sendByteDrives(byte) ==
  [ k \in 1..16 |-> IF k % 2 = 1 THEN ~sendByte(byte)[(k + 1) \div 2] ELSE FALSE ]

\* TapLink::startNegotiation: release, two sync pulses
startNegotiationDrives == << FALSE, TRUE, FALSE, TRUE, FALSE >>

\* TapLink::pollNegotiation: per bit slot run, drive for a 0 or release for a
\* 1, then release; the same in the tie-breaker slot
pollNegotiationDrives(t, selfId, peerLow) ==
  LET t1 == NegotiationLoop(t, selfId, peerLow)
      from == t.negotiationBitIndex
      n == t1.negotiationBitIndex - from
  IN  [ k \in 1..(2 * n) |->
          IF k % 2 = 1 THEN ~MyBit(selfId, from + ((k - 1) \div 2)) ELSE FALSE ]
      \o (IF ~t1.roleKnown
          THEN << ~TieBreakerBit(Lcg(t1.randomSeed)), FALSE >>
          ELSE << >>)

\* TapLink::poll of the EVAL build
pollDrives(t, a, selfId, now, in) ==
  IF a.isPulsing
  THEN IF now - a.pulseStartTime >= PRESENCE_PULSE_US THEN << FALSE >> ELSE << >>
  ELSE CASE t.state = "NoConnection" ->
              IF ~in.lineLow /\ now - a.lastPulseTime >= PULSE_INTERVAL_US
              THEN << TRUE >> ELSE << >>
         [] t.state = "Detecting" ->
              IF ~in.lineLow \/ now - a.stateStartTime >= DEBOUNCE_TIME_US
              THEN startNegotiationDrives ELSE << >>
         [] t.state = "Negotiating" -> pollNegotiationDrives(t, selfId, in.peerLow)
         [] OTHER -> << >>

\* TapLink::reset of the EVAL build that leaves the line as it is
resetDrives_noRelease == << >>

\* TapLink::reset of the EVAL build
resetDrives == << FALSE >>

\* TapLink::masterSendCommand
masterSendCommandDrives(t, cmd) ==
  IF ~t.roleKnown \/ ~t.isMaster THEN << >>
  ELSE IF t.state # "Connected" THEN << >>
  ELSE sendStartPulse \o sendByteDrives(cmd)

\* TapLink::slaveReceiveCommand: it only reads the line
slaveReceiveCommandDrives == << >>

\* TapLink::slaveSendResponse
slaveSendResponseDrives(t, response) ==
  IF ~t.roleKnown \/ t.isMaster THEN << >>
  ELSE IF t.state # "Connected" THEN << >>
  ELSE sendByteDrives(response)

\* the driver after the calls: as the last call set it
LineAfter(driving, drives) ==
  IF drives = << >> THEN driving ELSE drives[Len(drives)]

\* the clock stops the model here
MaxDriveMicros == 56000

\* cap on the calls of reset
MaxResets == 1

\* the time between two calls of poll: the loop's pace, or a long iteration
DriveSteps == { LoopDelayUs, 24 * LoopDelayUs }

\* an engine call returns: the object it leaves and the driveLow calls made
DriveDone(name, t, a, drives) ==
  /\ tap' = [ tap EXCEPT ![1] = [ t EXCEPT !.driving = LineAfter(tap[1].driving, drives) ] ]
  /\ app' = a
  /\ lastOp' = [ op |-> name, peer |-> ZeroId, ret |-> TRUE, why |-> "",
                 drove |-> drives ]
  /\ UNCHANGED << uid, usb, bat, calc, storeVars >>

\* TapLink::poll, step microseconds after the call before
DrivePoll(in, step) ==
  /\ hal.micros + step <= MaxDriveMicros
  /\ hal' = [ hal EXCEPT !.micros = @ + step ]
  /\ LET r == evalPoll(tap[1], app, uid[1], hal.micros + step, in)
     IN  DriveDone("poll", r.t, r.a,
                   pollDrives(tap[1], app, uid[1], hal.micros + step, in))

\* TapLink::reset
DriveReset ==
  /\ hal.resets < MaxResets
  /\ hal' = [ hal EXCEPT !.resets = @ + 1 ]
  /\ LET r == evalReset(tap[1], app)
     IN  DriveDone("reset", r.t, r.a, resetDrives)

\* TapLink::masterSendCommand, in whatever state the engine is
DriveMasterSendCommand(cmd, samples) ==
  /\ LET r == masterSendCommand(tap[1], app, cmd, samples)
     IN  DriveDone("masterSendCommand", r.t, r.a,
                   masterSendCommandDrives(tap[1], cmd))
  /\ UNCHANGED hal

\* TapLink::slaveReceiveCommand, in whatever state the engine is
DriveSlaveReceiveCommand ==
  /\ DriveDone("slaveReceiveCommand", tap[1], app, slaveReceiveCommandDrives)
  /\ UNCHANGED hal

\* TapLink::slaveSendResponse, in whatever state the engine is
DriveSlaveSendResponse(response) ==
  /\ DriveDone("slaveSendResponse", tap[1], app,
               slaveSendResponseDrives(tap[1], response))
  /\ UNCHANGED hal

\* what the line can carry during a call of poll: LOW or HIGH while the
\* engine listens, the peer's bits or a released line during the negotiation
DriveInputs ==
  LET listening == tap[1].state \in { "NoConnection", "Detecting" } /\ ~app.isPulsing
      negotiating == tap[1].state = "Negotiating" /\ ~app.isPulsing
  IN  [ lineLow    : IF listening THEN BOOLEAN ELSE { FALSE },
        peerLow    : IF negotiating
                     THEN { [ i \in 1..NEGOTIATION_BITS |-> ~MyBit(uid[2], i - 1) ],
                            [ i \in 1..NEGOTIATION_BITS |-> FALSE ] }
                     ELSE { [ i \in 1..NEGOTIATION_BITS |-> FALSE ] },
        peerTieLow : { FALSE } ]

NextDrive ==
  \/ \E in \in DriveInputs, step \in DriveSteps : DrivePoll(in, step)
  \/ DriveReset
  \/ \E cmd \in { TapCommand.CHECK_READY, TapCommand.SEND_ID },
        samples \in { IdleLine, Sampled(sendByte(TapResponse.ACK)) } :
        DriveMasterSendCommand(cmd, samples)
  \/ DriveSlaveReceiveCommand
  \/ \E response \in { TapResponse.ACK, TapResponse.NAK } :
        DriveSlaveSendResponse(response)

SpecDrive == InitUsb /\ [][NextDrive]_vars

(***************************************************************************)
(* Storage::loop against the millisecond clock (platform_millis, 32 bits). *)
(* The clock advances between the calls; a device that has nothing to save *)
(* may idle until the counter is about to wrap.  hal.sinceSave adds up the *)
(* milliseconds that passed since the last save, modulo 2^32.              *)
(***************************************************************************)
\* storage.h: the delayed write
STORAGE_DELAYED_WRITE_MS == 30000

\* milliseconds between two steps of the store
TickAdvances == { 10000, 20000 }

\* the clock advances at most this often
MaxTicks == 6

\* platform_millis after the long idle time: 15 s before the counter wraps
NearWrap == U32Sub(U32(0), U32(15000))

\* Storage::loop, the comparison without the unsigned subtraction
saveDue_noWrap(now, lastSaveMs) ==
  ~U32Less(now, U32Add(lastSaveMs, U32(STORAGE_DELAYED_WRITE_MS)))

\* Storage::loop: now - _lastSaveMs >= STORAGE_DELAYED_WRITE_MS in uint32_t
saveDue(now, lastSaveMs) ==
  ~U32Less(U32Sub(now, lastSaveMs), U32(STORAGE_DELAYED_WRITE_MS))

\* the Storage object takes the value s
StoreBecomes(s) ==
  /\ image' = s.image
  /\ dirty' = s.dirty
  /\ nvm' = s.nvm
  /\ lastLinkIndex' = s.lastLinkIndex
  /\ linkCountChanged' = s.linkCountChanged

\* Storage::begin with its last statement, _lastSaveMs = platform_millis()
TickBegin ==
  /\ BeginStore
  /\ app' = [ app EXCEPT !.lastSaveMs = hal.clock ]
  /\ hal' = [ hal EXCEPT !.sinceSave = U32(0) ]
  /\ UNCHANGED << uid, tap, usb, bat, calc, lastLinkIndex, linkCountChanged >>

\* d milliseconds pass
TickAdvance(d) ==
  /\ powered
  /\ hal.ticks < MaxTicks
  /\ hal' = [ hal EXCEPT !.clock = U32Add(@, U32(d)),
                         !.sinceSave = U32Add(@, U32(d)),
                         !.ticks = @ + 1 ]
  /\ lastOp' = Op("advance", ZeroId, TRUE)
  /\ UNCHANGED << uid, tap, usb, app, bat, calc, storeVars >>

\* the device idles with nothing to save until the counter is about to wrap
TickIdle ==
  /\ powered
  /\ ~dirty
  /\ ~hal.idled
  /\ U32Less(hal.clock, NearWrap)
  /\ hal' = [ hal EXCEPT !.clock = NearWrap,
                         !.sinceSave = U32Add(@, U32Sub(NearWrap, hal.clock)),
                         !.idled = TRUE ]
  /\ lastOp' = Op("advance", ZeroId, TRUE)
  /\ UNCHANGED << uid, tap, usb, app, bat, calc, storeVars >>

\* Storage::saveTapCountOnly with its last statement,
\* _lastSaveMs = platform_millis()
TickSaveTapCountOnly ==
  /\ powered
  /\ StoreBecomes(saveTapCountOnly(StoreOf))
  /\ app' = [ app EXCEPT !.lastSaveMs = hal.clock ]
  /\ hal' = [ hal EXCEPT !.sinceSave = U32(0) ]
  /\ lastOp' = Op("saveTapCountOnly", ZeroId, TRUE)
  /\ UNCHANGED << uid, tap, usb, bat, calc, powered >>

\* Storage::loop; the full write blocks for writeToNvmMicros and saveNow
\* reads the clock after it
TickLoop ==
  /\ powered
  /\ LET due   == saveDue(hal.clock, app.lastSaveMs)
         saved == dirty /\ due
         after == U32Add(hal.clock, U32(writeToNvmMicros \div 1000))
     IN  /\ StoreBecomes(storageLoop(StoreOf, due))
         /\ app' = IF saved THEN [ app EXCEPT !.lastSaveMs = after ] ELSE app
         /\ hal' = IF saved THEN [ hal EXCEPT !.clock = after, !.sinceSave = U32(0) ]
                   ELSE hal
         /\ lastOp' = Op("loop", ZeroId, saved)
  /\ UNCHANGED << uid, tap, usb, bat, calc, powered >>

NextTick ==
  \/ TickBegin
  \/ IncrementTapCount
  \/ \E d \in TickAdvances : TickAdvance(d)
  \/ TickIdle
  \/ TickSaveTapCountOnly
  \/ TickLoop

SpecTick == Init /\ [][NextTick]_vars

(***************************************************************************)
(* TapLink and Application of the battery build (no EVAL_BOARD_TEST).      *)
(* bat.micros is the clock of IOneWireHal::micros, in microseconds since   *)
(* boot; bat.simulateWake is the static flag of handleBatteryMode.         *)
(***************************************************************************)
VALIDATION_TIME_US == 10000

DISCONNECT_DEBOUNCE_US == 2000

\* validateConnection reads the line 5 times, 100 us apart
ValidateUs == 500

\* elapsedMicros(startTime) >= limit, with the clock reading now
ElapsedAtLeast(now, startTime, limit) ==
  ~U32Less(elapsedMicros(U32(now), U32(startTime)), U32(limit))

\* TapLink::poll of the battery build; consistent: validateConnection found
\* the 5 readings equal
batPoll(b, consistent) ==
  LET now == b.micros
  IN  CASE b.state = "Sleeping" -> b
        [] b.state = "Waking" ->
             IF consistent
             THEN IF ElapsedAtLeast(now + ValidateUs, b.lastWakeTime,
                                    VALIDATION_TIME_US)
                  THEN [ b EXCEPT !.state = "Connected",
                                  !.connectionJustEstablished = TRUE,
                                  !.wasConnected = TRUE ]
                  ELSE b
             ELSE [ b EXCEPT !.state = "Sleeping" ]
        [] b.state = "Connected" ->
             IF ~consistent
             THEN IF b.wasConnected
                  THEN [ b EXCEPT !.stateStartTime = now, !.wasConnected = FALSE ]
                  ELSE IF ElapsedAtLeast(now + ValidateUs, b.stateStartTime,
                                         DISCONNECT_DEBOUNCE_US)
                  THEN [ b EXCEPT !.state = "Disconnected",
                                  !.connectionJustLost = TRUE ]
                  ELSE b
             ELSE [ b EXCEPT !.wasConnected = TRUE ]
        [] OTHER -> b

\* microseconds poll takes: validateConnection runs in Waking and Connected
batPollUs(b) == IF b.state \in { "Waking", "Connected" } THEN ValidateUs ELSE 0

\* TapLink::prepareForSleep
prepareForSleep(b) ==
  [ b EXCEPT !.state = "Sleeping", !.connectionJustEstablished = FALSE,
             !.connectionJustLost = FALSE ]

\* TapLink::handleWakeUp
handleWakeUp(b, now) ==
  [ b EXCEPT !.lastWakeTime = now, !.state = "Waking", !.stateStartTime = now ]

\* TapLink::reset of the battery build
batReset(b) ==
  [ b EXCEPT !.state = "Sleeping", !.connectionJustEstablished = FALSE,
             !.connectionJustLost = FALSE, !.wasConnected = FALSE ]

\* Application::handleBatteryMode; now: the clock when it is entered.  The
\* two event getters clear their flags; the result carries the clock after
\* the delays of the branch taken.
handleBatteryMode(b, now) ==
  LET b1 == [ b EXCEPT !.connectionJustEstablished = FALSE,
                       !.connectionJustLost = FALSE ]
  IN  IF b1.state = "Sleeping"
      THEN LET b2 == prepareForSleep(b1)
               woken == now + 100000
           IN  IF ~b2.simulateWake
               THEN [ handleWakeUp(b2, woken) EXCEPT !.simulateWake = TRUE,
                                                     !.micros = woken ]
               ELSE [ b2 EXCEPT !.micros = woken ]
      ELSE IF b1.state = "Disconnected"
      THEN [ batReset(b1) EXCEPT !.micros = now + 500000 ]
      ELSE [ b1 EXCEPT !.micros = now ]

\* the clock stops the model here
MaxBatMicros == 200000

\* TapLink::validateConnection on the five readings of the line (TRUE is
\* HIGH): the connection is valid when they agree
validateConnection(readings) == \A i \in 2..5 : readings[i] = readings[1]

\* what the line can read during the five samples of one tick
LineReadings == [ 1..5 -> BOOLEAN ]

\* how long the line has kept a property over consecutive ticks of a
\* Connected engine, up to the end of this tick's five samples; before: the
\* time so far.  The ticks of Connected are 1500 us apart (500 us of
\* samples, 1000 us of delay).
KeptFor(before, keeps, connected) ==
  IF ~connected \/ ~keeps THEN 0
  ELSE IF before = 0 THEN ValidateUs
  ELSE before + 1000 + ValidateUs

\* Application::loop of the battery build: poll, handleBatteryMode, 1 ms of
\* delay.  The store has nothing to write and no serial line arrives.
BatLoop(readings) ==
  /\ bat.micros < MaxBatMicros
  /\ LET nowMs == bat.micros \div 1000
         consistent == validateConnection(readings)
         b1 == batPoll(bat, consistent)
         b2 == handleBatteryMode(b1, bat.micros + batPollUs(bat))
     IN  /\ bat' = [ b2 EXCEPT !.micros = @ + 1000 ]
         /\ app' = IF b1.connectionJustEstablished
                   THEN [ app EXCEPT !.connectionDetectedTime = nowMs ]
                   ELSE app
         /\ hal' = [ hal EXCEPT
                       !.badFor = KeptFor(@, ~consistent \/ readings[1],
                                          bat.state = "Connected"),
                       !.unstableFor = KeptFor(@, ~consistent,
                                               bat.state = "Connected") ]
         /\ lastOp' = [ op |-> "batLoop", peer |-> ZeroId,
                        ret |-> b1.connectionJustEstablished,
                        why |-> b2.state, was |-> bat.state,
                        lost |-> b1.connectionJustLost ]
  /\ UNCHANGED << uid, tap, usb, calc, storeVars >>

InitBat ==
  /\ uid = [ d \in Devices |-> IdTable[d] ]
  /\ tap = [ d \in Devices |-> TapConstructed(U32(0), uid[d]) ]
  /\ usb = UsbIdle
  /\ ExtIdle
  /\ powered = FALSE
  /\ image = ZeroImage
  /\ dirty = FALSE
  /\ lastLinkIndex = 0
  /\ linkCountChanged = FALSE
  /\ nvm = MemSet(SizeofPersistImageV1, 255)
  /\ lastOp = Op("init", ZeroId, TRUE)

NextBat == \E readings \in LineReadings : BatLoop(readings)

SpecBat == InitBat /\ [][NextBat]_vars

(***************************************************************************)
(* Properties of the role negotiation.                                     *)
(***************************************************************************)
RECURSIVE IdGreaterFrom(_, _, _)
IdGreaterFrom(a, b, i) ==
  IF i > DEVICE_UID_LEN THEN FALSE
  ELSE IF a[i] # b[i] THEN a[i] > b[i]
  ELSE IdGreaterFrom(a, b, i + 1)

\* a > b as big-endian 96-bit integers
IdGreater(a, b) == IdGreaterFrom(a, b, 1)

BothConnected == \A d \in Devices : tap[d].state = "Connected"

\* C1: when two devices with distinct identifiers have run the negotiation
\* concurrently, exactly one of them is master, it is the one with the
\* numerically larger selfId, and neither ran more than NEGOTIATION_BITS
\* bit slots.
C1_OneMasterLargerId ==
  BothConnected =>
    /\ \E d \in Devices : /\ tap[d].isMaster
                          /\ ~tap[Peer(d)].isMaster
                          /\ IdGreater(uid[d], uid[Peer(d)])
    /\ \A d \in Devices : tap[d].negotiationBitIndex <= NEGOTIATION_BITS

\* C2: a device whose peer has the larger identifier does not decide inside
\* the bit loop (it leaves pollNegotiation through the post-loop branch) and
\* ends as slave.
C2_SmallerEndsSlave ==
  \A d \in Devices :
    (IdGreater(uid[Peer(d)], uid[d]) /\ tap[d].state = "Connected")
      => (tap[d].postLoop /\ ~tap[d].isMaster)

\* the part of C2 about the bit loop: the device with the smaller identifier
\* never sees its own bit 1 with the line LOW
SmallerUndecidedInLoop ==
  \A d \in Devices :
    (IdGreater(uid[Peer(d)], uid[d]) /\ tap[d].roleKnown) => tap[d].postLoop

(***************************************************************************)
(* Properties of SIGN_STATE.                                               *)
(***************************************************************************)
\* the byte layout of the signed message for a tap count k and a nonce
CanonicalMsg(p, k, nonce) ==
  p.selfId \o nonce \o LE32(k) \o LE16(p.linkCount)
    \o Flatten([ i \in 1..p.linkCount |-> p.links[i] ])

\* the last step was SIGN_STATE with a well-formed nonce of 1..32 bytes
SignedValidNonce ==
  /\ lastOp.op = "signState"
  /\ Len(NonceTable[lastOp.arg].bytes) \in 1..32

\* the response is SIGNED_STATE, its tag is over the canonical layout under
\* the stored key, and its linkCount is the number of identifiers signed
SignedCanonical ==
  /\ usb.event = "SIGNED_STATE"
  /\ usb.hmac.key = image.payload.secretKey
  /\ \E k \in 0..MaxTaps :
       /\ image.payload.totalTapCount = U32(k)
       /\ usb.hmac.msg = CanonicalMsg(image.payload, k, NonceTable[lastOp.arg].bytes)
  /\ Len(usb.hmac.msg) = DEVICE_UID_LEN + Len(NonceTable[lastOp.arg].bytes) + 6
                         + usb.linkCount * DEVICE_UID_LEN

\* C10: for every nonce of 1..32 bytes and every provisioned key (a key
\* accepted by PROVISION_KEY, so keyVersion is not 0), SIGN_STATE signs
\* selfId, nonce, totalTapCount (4 LE), linkCount (2 LE) and the first
\* linkCount link identifiers, and reports the number of links signed.
C10_SignStateLayout ==
  (SignedValidNonce /\ image.payload.keyVersion # 0) => SignedCanonical

\* the same with the key test of the code: the layout is canonical whenever
\* the stored key has a non-zero byte
SignStateLayoutNonZeroKey ==
  (SignedValidNonce /\ hasSecretKey(image.payload)) => SignedCanonical

C12_ProvisionedKeySigns ==
  (SignedValidNonce /\ image.payload.keyVersion \in 1..255) =>
    /\ usb.event = "SIGNED_STATE"
    /\ usb.keyVersion = image.payload.keyVersion
    /\ usb.hmac.key = image.payload.secretKey

\* C13: a serial line with an unknown command word or with invalid arguments
\* is answered with an error event and changes neither the in-memory image,
\* nor the dirty flag, nor the NVM.
C13_InvalidLineNoChange ==
  [][ (lastOp'.op = "handleLine" /\ LineTable[lastOp'.arg].class = "invalid") =>
        /\ usb'.event = "error"
        /\ UNCHANGED << image, dirty, nvm, lastLinkIndex, linkCountChanged >>
    ]_vars

\* an invalid line handled while a key is stored and a link is unsaved
C13_Witness ==
  /\ lastOp.op = "handleLine"
  /\ LineTable[lastOp.arg].class = "invalid"
  /\ usb.event = "error"
  /\ dirty
  /\ image.payload.keyVersion # 0

(***************************************************************************)
(* Properties of the command phase and of the tap counter (device 1, EVAL  *)
(* build).                                                                 *)
(***************************************************************************)
\* device 1 is a slave in Connected
SlaveInConnected ==
  tap[1].state = "Connected" /\ tap[1].roleKnown /\ ~tap[1].isMaster

\* C14: a master in Connected whose peer was removed counts every command
\* it sends as a failure, and after MAX_COMMAND_FAILURES (3) such commands in
\* a row it is back in NoConnection.
C14_MasterDropsAfterFailures ==
  (lastOp.op = "appLoop" /\ lastOp.sent /\ ~hal.peerPresent) =>
    /\ app.commandFailures = hal.unanswered \/ tap[1].state = "NoConnection"
    /\ hal.unanswered >= MAX_COMMAND_FAILURES => tap[1].state = "NoConnection"

\* C15: a slave is not in Connected any more after an iteration that finds
\* SLAVE_IDLE_TIMEOUT_US (2 s) passed since the connection began or the last
\* command byte was received.
C15_SlaveIdleTimeout ==
  (lastOp.op = "appLoop" /\ SlaveInConnected) =>
    (lastOp.now - hal.heardAt) * 1000 < SLAVE_IDLE_TIMEOUT_US

\* C16: every step that takes the engine into NoConnection leaves peerReady,
\* idExchangeComplete, commandFailures and the role flags reset.
C16_IdleEntryResets ==
  [][ (tap[1].state # "NoConnection" /\ tap'[1].state = "NoConnection") =>
        /\ ~app'.peerReady
        /\ ~app'.idExchangeComplete
        /\ app'.commandFailures = 0
        /\ ~tap'[1].roleKnown
        /\ ~tap'[1].isMaster ]_vars

\* the tap counter as stored in the NVM
StoredTapCount == ParseImage(nvm).payload.totalTapCount

\* C18: a step in which the engine becomes Connected adds exactly one to
\* totalTapCount and leaves the new value stored (by saveTapCountOnly, with
\* an image that validates); totalTapCount changes in no other step except
\* by CLEAR.
C18_TapCountedOnce ==
  [][ /\ (tap[1].state # "Connected" /\ tap'[1].state = "Connected") =>
           /\ image'.payload.totalTapCount = U32Inc(image.payload.totalTapCount)
           /\ StoredTapCount' = image'.payload.totalTapCount
           /\ loadFromNvm(nvm').ok
           /\ ~dirty'
      /\ image'.payload.totalTapCount # image.payload.totalTapCount =>
           \/ /\ lastOp'.op = "appLoop" /\ lastOp'.ret
              /\ tap[1].state # "Connected" /\ tap'[1].state = "Connected"
           \/ /\ lastOp'.op = "handleLine"
              /\ ToUpperStr(StrTok(LineTable[lastOp'.arg].line, 1)[1]) = W_CLEAR
              /\ image'.payload.totalTapCount = U32(0) ]_vars

\* a tap was completed and counted: the first one of a device
C18_Witness ==
  /\ lastOp.op = "appLoop" /\ lastOp.ret
  /\ tap[1].state = "Connected" /\ tap[1].roleKnown
  /\ image.payload.totalTapCount = U32(1)
  /\ StoredTapCount = U32(1)

(***************************************************************************)
(* Properties of the detection state and the role.                         *)
(***************************************************************************)
\* C17: in either build, an engine in Connected knows its role (hasRole()),
\* which is then either master or slave: the role is set before the state
\* becomes Connected.
C17_ConnectedHasRole ==
  /\ \A d \in Devices : tap[d].state = "Connected" => tap[d].roleKnown
  /\ bat.state = "Connected" => bat.roleKnown

(***************************************************************************)
(* Properties of the slave's pulse classification and of elapsedMicros.    *)
(***************************************************************************)
\* the width of the peer's LOW pulse: what had passed when the slave's tick
\* saw it plus what followed
PulseWidth == U32Add(U32(calc.offset), calc.duration)

\* C19: a LOW pulse of the peer of at least 3000 us (and within the command
\* timeout) is taken as START and the command byte is read; a shorter pulse
\* gives NONE; so a 2000 us presence pulse is never START and a 5000 us START
\* pulse always is, wherever in the pulse the slave first saw the line LOW.
C19_StartByPulseWidth ==
  (calc.fn = "slaveReceiveCommand" /\ ~U32Less(U32(CMD_TIMEOUT_US), PulseWidth)) =>
    IF U32Less(PulseWidth, U32(StartPulseMinUs))
    THEN calc.result = TapCommand.NONE
    ELSE calc.result = calc.cmd

\* the half of C19 about presence pulses: a pulse shorter than 3000 us is
\* never taken as START
ShortPulseNeverStart ==
  (calc.fn = "slaveReceiveCommand" /\ U32Less(PulseWidth, U32(StartPulseMinUs))) =>
    calc.result = TapCommand.NONE

\* C20: elapsedMicros(start) is (now - start) mod 2^32: adding it to start
\* gives now, and it is the time that really passed, also across a wrap of
\* the clock.
C20_ElapsedMicrosModular ==
  calc.fn = "elapsedMicros" =>
    /\ U32Add(calc.startTime, calc.result) = calc.now
    /\ calc.result = calc.duration

\* a measurement that starts shortly before the wrap and ends after it
C20_Witness ==
  /\ calc.fn = "elapsedMicros"
  /\ calc.startTime = << 47, 248, 255, 255 >>
  /\ calc.duration = U32(5000)
  /\ U32Less(calc.now, calc.startTime)
  /\ calc.result = U32(5000)

(***************************************************************************)
(* Properties of the persistent store.                                     *)
(***************************************************************************)
SaveOps == { "saveNow", "saveTapCountOnly", "saveLinkOnly" }

\* the peer is among the first linkCount entries
Recorded(p, peerId) == \E i \in 1..MAX_LINKS : i <= p.linkCount /\ p.links[i] = peerId

\* the stored bytes fail one of the loader's four comparisons
StoredInvalid(mem) ==
  \/ Slice(mem, 0, 4) # U32(STORAGE_MAGIC)
  \/ Slice(mem, 4, 2) # LE16(STORAGE_VERSION)
  \/ Slice(mem, 6, 2) # LE16(SizeofPersistPayloadV1)
  \/ Slice(mem, OffHeaderCrc32, 4)
       # calcCrc32(Slice(mem, OffPayload, SizeofPersistPayloadV1))

\* C3: after any store operations followed by saveNow, saveTapCountOnly or
\* saveLinkOnly, the stored image passes the loader's validation.
C3_SavedImageValidates ==
  (powered /\ lastOp.op \in SaveOps) => ~StoredInvalid(nvm)

\* C4: right after addLink(p) the peer p is recorded, and linkCount never
\* exceeds MAX_LINKS.
C4_AddLinkRecords ==
  /\ lastOp.op = "addLink" => Recorded(image.payload, lastOp.peer)
  /\ image.payload.linkCount <= MAX_LINKS

C4_Witness ==
  /\ lastOp.op = "addLink" /\ lastOp.ret
  /\ image.payload.linkCount = MAX_LINKS
  /\ lastLinkIndex = 0 /\ ~linkCountChanged

\* C5: addLink(p) of a peer already among the first linkCount entries
\* returns false and leaves linkCount, the links and the dirty flag as they
\* were.
C5_AddLinkIdempotent ==
  [][ \A p \in Peers :
        (lastOp'.op = "addLink" /\ lastOp'.peer = p /\ Recorded(image.payload, p))
          => /\ lastOp'.ret = FALSE
             /\ image'.payload.linkCount = image.payload.linkCount
             /\ image'.payload.links = image.payload.links
             /\ dirty' = dirty ]_vars

C5_Witness ==
  /\ lastOp.op = "addLink" /\ ~lastOp.ret /\ ~dirty
  /\ image.payload.links[MAX_LINKS] = lastOp.peer

\* C6: the first linkCount entries of links are pairwise distinct, also
\* after the table is full and slots are overwritten.
C6_LinksDistinct ==
  \A i, j \in 1..MAX_LINKS :
    (i < j /\ j <= image.payload.linkCount)
      => image.payload.links[i] # image.payload.links[j]

C6_Witness ==
  /\ lastOp.op = "addLink" /\ lastOp.ret
  /\ image.payload.linkCount = MAX_LINKS /\ ~linkCountChanged
  /\ image.payload.links[1] = lastOp.peer
  /\ image.payload.totalTapCount = U32(0)

\* C7: clearAll keeps selfId, zeroes totalTapCount, linkCount, every link
\* slot, keyVersion and the secret key (hasSecretKey is false), and the
\* cleared image is in NVM, by a full save, when it returns.
C7_ClearAll ==
  [][ lastOp'.op = "clearAll"
        => /\ image'.payload.selfId = image.payload.selfId
           /\ image'.payload.totalTapCount = U32(0)
           /\ image'.payload.linkCount = 0
           /\ \A i \in 1..MAX_LINKS : image'.payload.links[i] = ZeroId
           /\ image'.payload.keyVersion = 0
           /\ image'.payload.secretKey = ZeroKey
           /\ ~hasSecretKey(image'.payload)
           /\ nvm' = ImageBytes(image')
           /\ ~StoredInvalid(nvm')
           /\ ~dirty' ]_vars

C7_Witness ==
  /\ lastOp.op = "clearAll"
  /\ image.payload.selfId = uid[1]
  /\ image.payload.linkCount = 0
  /\ nvm = ImageBytes(image)

\* C8: begin() on a stored image with a wrong magic, version, length or CRC
\* (a flipped byte and an erased region are such images) ends with a fresh
\* image: selfId from the hardware UID, everything else zero, written to
\* NVM, dirty false.
C8_InvalidImageReset ==
  [][ /\ (lastOp'.op \in { "corrupt", "erase" } => StoredInvalid(nvm'))
      /\ (~powered /\ powered' /\ StoredInvalid(nvm))
           => /\ image'.payload = [ ZeroPayload EXCEPT !.selfId = uid[1] ]
              /\ ~hasSecretKey(image'.payload)
              /\ nvm' = ImageBytes(image')
              /\ ~StoredInvalid(nvm')
              /\ ~dirty' ]_vars

C8_Witness ==
  /\ lastOp.op = "begin" /\ lastOp.why = "crc"
  /\ image.payload = [ ZeroPayload EXCEPT !.selfId = uid[1] ]
  /\ nvm = ImageBytes(image)

\* C9: with linkCount = MAX_LINKS - 1 addLink of a new peer returns true
\* and makes linkCount MAX_LINKS; addLink of a further new peer returns
\* true, writes the peer into slot 0 and leaves linkCount at MAX_LINKS.
C9_AddLinkWrap ==
  [][ \A p \in Peers :
        (lastOp'.op = "addLink" /\ lastOp'.peer = p /\ ~Recorded(image.payload, p))
          => /\ image.payload.linkCount = MAX_LINKS - 1
                  => lastOp'.ret /\ image'.payload.linkCount = MAX_LINKS
             /\ image.payload.linkCount = MAX_LINKS
                  => /\ lastOp'.ret
                     /\ image'.payload.links[1] = p
                     /\ image'.payload.linkCount = MAX_LINKS
                     /\ \A i \in 2..MAX_LINKS :
                          image'.payload.links[i] = image.payload.links[i] ]_vars

C9_Witness ==
  /\ lastOp.op = "addLink" /\ lastOp.ret
  /\ image.payload.linkCount = MAX_LINKS
  /\ lastLinkIndex = 0 /\ ~linkCountChanged /\ dirty
  /\ image.payload.links[1] = lastOp.peer
  /\ image.payload.links[MAX_LINKS] # ZeroId

\* C21: once begin has completed no store operation changes selfId (addLink,
\* incrementTapCount, setSecretKey, clearAll, saveNow, both fast saves,
\* loop); a later begin keeps the stored selfId unless the loaded image is
\* invalid or its selfId is all zero.
C21_SelfIdFrozen ==
  [][ /\ (powered /\ powered') => image'.payload.selfId = image.payload.selfId
      /\ (~powered /\ powered') =>
           LET ld == loadFromNvm(nvm)
           IN  (ld.ok /\ ~isUidAllZero(ld.image.payload.selfId))
                 => image'.payload.selfId = ld.image.payload.selfId ]_vars

C21_Witness ==
  /\ lastOp.op = "clearAll"
  /\ image.payload.selfId = uid[1]
  /\ ~isUidAllZero(image.payload.selfId)
  /\ ParseImage(nvm).payload.selfId = uid[1]

(***************************************************************************)
(* Properties of the command handlers' statement order.                    *)
(***************************************************************************)
\* the line a running handler works on
HandledLine == LineTable[calc.arg]

\* the ack the handler of the line owes
AckOf(line) ==
  LET tok == StrTok(line, 1)
  IN  IF ToUpperStr(tok[1]) = W_CLEAR THEN "CLEAR" ELSE "PROVISION_KEY"

\* C22: for CLEAR and for an accepted PROVISION_KEY the ack has been printed
\* when the store operation with its NVM write starts; a rejected
\* PROVISION_KEY prints no ack and writes nothing.
C22_AckBeforeWrite ==
  [][ calc.fn = "handleLine" =>
        /\ lastOp'.op \in { "clearAll", "setSecretKey" }
             => usb.event = "ack" /\ usb.cmd = AckOf(HandledLine.line)
        /\ (HandledLine.class = "invalid"
              /\ ToUpperStr(StrTok(HandledLine.line, 1)[1]) = W_PROVISION_KEY)
             => /\ usb'.event = "error"
                /\ UNCHANGED << image, nvm, dirty >>
                /\ calc' = CalcIdle ]_vars

C22_Witness ==
  /\ lastOp.op = "setSecretKey"
  /\ calc = CalcIdle
  /\ usb.event = "ack" /\ usb.cmd = "PROVISION_KEY"
  /\ ParseImage(nvm).payload.secretKey = TestKey

(***************************************************************************)
(* Properties of the detection engine in Application::loop (EVAL build).   *)
(***************************************************************************)
EntersNegotiating == tap[1].state # "Negotiating" /\ tap'[1].state = "Negotiating"

EntersConnected == tap[1].state # "Connected" /\ tap'[1].state = "Connected"

\* C23: connection_detected and negotiation_complete are one-shot: the
\* iteration that enters Negotiating is the one whose isConnectionDetected
\* call returns true, the iteration that enters Connected is the one whose
\* isNegotiationComplete call returns true, every other call returns false,
\* and no other step enters either state.
C23_OneShotEvents ==
  [][ /\ lastOp'.op = "appLoop" =>
           /\ lastOp'.detected <=> EntersNegotiating
           /\ lastOp'.ret <=> EntersConnected
           /\ ~tap'[1].connectionJustDetected
           /\ ~tap'[1].negotiationJustCompleted
      /\ lastOp'.op # "appLoop" => ~EntersNegotiating /\ ~EntersConnected ]_vars

\* the iteration after the one that detected: the negotiation completes
C23_Witness ==
  /\ lastOp.op = "appLoop" /\ lastOp.ret /\ ~lastOp.detected
  /\ tap[1].state = "Connected"
  /\ image.payload.totalTapCount = U32(1)
  /\ hal.millis >= 2 * TickMs

\* C24: the engine enters Detecting only from NoConnection, in an iteration
\* that reads the line LOW while no presence pulse of its own is out; from
\* Detecting it enters Negotiating when the line is HIGH again before
\* DEBOUNCE_TIME_US and when it has stayed LOW for DEBOUNCE_TIME_US, with
\* connection_detected raised both times; it never returns from Detecting to
\* NoConnection.
C24_DetectingTransitions ==
  [][ lastOp'.op = "pollLoop" =>
        /\ (tap[1].state # "Detecting" /\ tap'[1].state = "Detecting")
             => /\ tap[1].state = "NoConnection"
                /\ lastOp'.lineLow
                /\ ~app.isPulsing
        /\ tap[1].state = "Detecting"
             => /\ tap'[1].state \in { "Detecting", "Negotiating" }
                /\ (~lastOp'.lineLow
                      /\ lastOp'.now - app.stateStartTime < DEBOUNCE_TIME_US)
                     => tap'[1].state = "Negotiating" /\ lastOp'.detected
                /\ (lastOp'.lineLow
                      /\ lastOp'.now - app.stateStartTime >= DEBOUNCE_TIME_US)
                     => tap'[1].state = "Negotiating" /\ lastOp'.detected
                /\ (lastOp'.lineLow
                      /\ lastOp'.now - app.stateStartTime < DEBOUNCE_TIME_US)
                     => tap'[1].state = "Detecting" /\ ~lastOp'.detected ]_vars

\* the line stayed LOW for DEBOUNCE_TIME_US and the negotiation began
C24_Witness ==
  /\ lastOp.op = "pollLoop" /\ lastOp.detected /\ lastOp.lineLow
  /\ tap[1].state = "Negotiating"
  /\ lastOp.now - app.stateStartTime >= DEBOUNCE_TIME_US

\* C25: a presence pulse is started only in NoConnection, and only when
\* PULSE_INTERVAL_US or more have passed since the line was released after
\* the pulse before; in Detecting, Negotiating and Connected no pulse is out.
C25_PulsesOnlyInIdle ==
  [][ lastOp'.op = "pollLoop" =>
        /\ lastOp'.started
             => /\ tap[1].state = "NoConnection"
                /\ tap'[1].state = "NoConnection"
                /\ lastOp'.now - hal.releasedAt >= PULSE_INTERVAL_US
        /\ tap'[1].state # "NoConnection" => ~app'.isPulsing ]_vars

\* the second pulse of an idle device has started
C25_Witness ==
  /\ lastOp.op = "pollLoop" /\ lastOp.started
  /\ hal.pulses = 2
  /\ hal.releasedAt > 0
  /\ app.isPulsing

\* a pulse width within 10 % of PRESENCE_PULSE_US
WithinPresenceTolerance(w) ==
  /\ 10 * w >= 9 * PRESENCE_PULSE_US
  /\ 10 * w <= 11 * PRESENCE_PULSE_US

\* C26: every presence pulse holds the line LOW for PRESENCE_PULSE_US, within
\* 10 %, whatever the loop runs between two calls of TapLink::poll.
C26_PulseWidth ==
  (lastOp.op = "pollLoop" /\ lastOp.released)
    => WithinPresenceTolerance(hal.pulseWidth)

\* a pulse during which no serial command ran has the width
PulseWidthUndisturbed ==
  (lastOp.op = "pollLoop" /\ lastOp.released /\ ~hal.disturbed)
    => WithinPresenceTolerance(hal.pulseWidth)

\* both devices found all NEGOTIATION_BITS equal, ran the tie-breaker slot
\* together and have returned from pollNegotiation
BothTied ==
  \A d \in Devices :
    /\ tap[d].postLoop
    /\ tap[d].state = "Connected"
    /\ \A k \in 0..(NEGOTIATION_BITS - 1) : MyBit(uid[d], k) = MyBit(uid[Peer(d)], k)

\* C27: after a tie over all NEGOTIATION_BITS, the device whose tie-breaker
\* bit is 1 while the peer's is 0 is master and that peer is slave; with
\* equal tie-breaker bits each device is master exactly if the sum of its 12
\* selfId bytes is odd.
C27_TieBreaker ==
  BothTied =>
    \A d \in Devices :
      /\ (tap[d].myTieBreaker /\ ~tap[Peer(d)].myTieBreaker)
           => tap[d].isMaster /\ ~tap[Peer(d)].isMaster
      /\ (tap[d].myTieBreaker = tap[Peer(d)].myTieBreaker)
           => (tap[d].isMaster <=> UidSumOdd(uid[d]))

\* the half of C27 the code keeps: the device whose bit is 1 against a 0 is
\* master, and equal bits leave the decision to the parity of the sum
TieBreakerWinnerAndParity ==
  BothTied =>
    \A d \in Devices :
      /\ (tap[d].myTieBreaker /\ ~tap[Peer(d)].myTieBreaker) => tap[d].isMaster
      /\ (tap[d].myTieBreaker = tap[Peer(d)].myTieBreaker)
           => (tap[d].isMaster <=> UidSumOdd(uid[d]))

\* an iteration of Application::loop that finds device 1 Connected as slave
SlaveTick ==
  /\ lastOp'.op = "appLoop"
  /\ tap[1].state = "Connected" /\ tap[1].roleKnown /\ ~tap[1].isMaster

\* the commands of the protocol
KnownCommands ==
  { TapCommand.NONE, TapCommand.CHECK_READY, TapCommand.REQUEST_ID,
    TapCommand.SEND_ID }

\* C29: in one iteration a Connected slave handles at most one inbound
\* command and sends at most one response byte: CHECK_READY is answered with
\* ACK; a successful SEND_ID leads to addLink(peer), and saveLinkOnly writes
\* exactly when addLink added a new link; a byte that is no command is
\* answered with NAK; and when slaveReceiveCommand returns NONE nothing is
\* sent and no state changes.
C29_SlaveCommands ==
  [][ SlaveTick =>
        /\ lastOp'.out = << >>
        /\ lastOp'.cmd = TapCommand.CHECK_READY
             => /\ lastOp'.resp = TapResponse.ACK
                /\ lastOp'.link = "none"
                /\ UNCHANGED << image, nvm, dirty >>
        /\ lastOp'.cmd = TapCommand.SEND_ID
             => /\ lastOp'.link # "none" <=> lastOp'.resp = TapResponse.ACK
                /\ lastOp'.link = "addedNew"
                     <=> (lastOp'.resp = TapResponse.ACK
                            /\ ~hasLink(image.payload, uid[2]))
                /\ lastOp'.link = "addedNew"
                     => /\ hasLink(image'.payload, uid[2])
                        /\ hasLink(ParseImage(nvm').payload, uid[2])
                        /\ ~dirty'
                /\ lastOp'.link # "addedNew" => UNCHANGED << image, nvm, dirty >>
        /\ lastOp'.cmd \notin KnownCommands
             => /\ lastOp'.resp = TapResponse.NAK
                /\ lastOp'.link = "none"
                /\ UNCHANGED << image, nvm, dirty >>
        /\ lastOp'.cmd = TapCommand.NONE
             => /\ lastOp'.resp = TapResponse.NONE
                /\ lastOp'.link = "none"
                /\ UNCHANGED << tap, app, image, nvm, dirty, lastLinkIndex,
                                linkCountChanged >> ]_vars

\* the slave has taken a SEND_ID, answered ACK and saved the new link
C29_Witness ==
  /\ lastOp.op = "appLoop"
  /\ lastOp.cmd = TapCommand.SEND_ID
  /\ lastOp.resp = TapResponse.ACK
  /\ lastOp.link = "addedNew"
  /\ tap[1].state = "Connected" /\ ~tap[1].isMaster
  /\ hasLink(ParseImage(nvm).payload, uid[2])

\* C28: handleMasterCommands sends only in a Connected master and its
\* rounds are COMMAND_INTERVAL_MS or more apart; a round is one CHECK_READY
\* exactly when peerReady is false or idExchangeComplete is true, and else it
\* begins with REQUEST_ID; SEND_ID follows only an acknowledged REQUEST_ID of
\* the same round; addLink is called only when both were acknowledged, and
\* saveLinkOnly writes exactly when addLink added a new link.
C28_MasterRound ==
  [][ lastOp'.op = "appLoop" =>
        LET o == lastOp'
        IN  /\ o.sent <=> o.out # << >>
            /\ o.sent
                 => /\ tap[1].state = "Connected" /\ tap[1].isMaster
                    /\ o.now - app.lastCommandTime >= COMMAND_INTERVAL_MS
                    /\ hal.roundAt # -1 => o.now - hal.roundAt >= COMMAND_INTERVAL_MS
                    /\ hal'.roundAt = o.now
                    /\ o.out = << TapCommand.CHECK_READY >>
                         <=> (~app.peerReady \/ app.idExchangeComplete)
                    /\ o.out # << TapCommand.CHECK_READY >>
                         => /\ o.out[1] = TapCommand.REQUEST_ID
                            /\ Len(o.out) = 2 <=> o.ack1
                            /\ Len(o.out) = 2 => o.out[2] = TapCommand.SEND_ID
                    /\ o.link # "none"
                         <=> (Len(o.out) = 2 /\ o.ack1 /\ o.ack2)
                    /\ o.link = "addedNew"
                         <=> (o.link # "none" /\ ~hasLink(image.payload, uid[2]))
                    /\ o.link = "addedNew"
                         => /\ hasLink(image'.payload, uid[2])
                            /\ hasLink(ParseImage(nvm').payload, uid[2])
                            /\ ~dirty'
                    /\ o.link # "addedNew" => UNCHANGED << image, nvm, dirty >> ]_vars

\* a round of REQUEST_ID and SEND_ID, both acknowledged, has stored the peer
C28_Witness ==
  /\ lastOp.op = "appLoop"
  /\ lastOp.out = << TapCommand.REQUEST_ID, TapCommand.SEND_ID >>
  /\ lastOp.link = "addedNew"
  /\ tap[1].state = "Connected" /\ tap[1].isMaster
  /\ app.idExchangeComplete
  /\ hasLink(ParseImage(nvm).payload, uid[2])

\* C30: Storage::loop writes the full image exactly when the store is dirty
\* and STORAGE_DELAYED_WRITE_MS or more have passed since the last save of
\* any kind (or since begin), also across the wrap of the 32-bit millisecond
\* counter; otherwise it leaves the NVM as it is; after the save the store is
\* not dirty, the NVM holds the image, and _lastSaveMs is the time of the
\* clock.
C30_StoreTick ==
  [][ lastOp'.op = "loop" =>
        /\ lastOp'.ret
             <=> (dirty /\ ~U32Less(hal.sinceSave, U32(STORAGE_DELAYED_WRITE_MS)))
        /\ ~lastOp'.ret => UNCHANGED << image, nvm, dirty, app >>
        /\ lastOp'.ret
             => /\ ~dirty'
                /\ nvm' = ImageBytes(image')
                /\ image'.payload = image.payload
                /\ ParseImage(nvm').payload = image.payload
                /\ app'.lastSaveMs = hal'.clock
                /\ hal'.sinceSave = U32(0) ]_vars

\* a delayed save has happened after the counter wrapped
C30_Witness ==
  /\ lastOp.op = "loop" /\ lastOp.ret
  /\ hal.idled
  /\ U32Less(hal.clock, U32(STORAGE_DELAYED_WRITE_MS))
  /\ app.lastSaveMs = hal.clock
  /\ ~dirty

\* the stored bytes carry a CRC word that matches the stored payload
StoredCrcMatches(mem) ==
  Slice(mem, OffHeaderCrc32, 4)
    = calcCrc32(Slice(mem, OffPayload, SizeofPersistPayloadV1))

\* C31: in saveTapCountOnly and saveLinkOnly the four bytes of the crc32 word
\* are the last writes; when power is cut after all changed field bytes and
\* before the first CRC byte, the next begin rejects the image and starts
\* from a fresh one; and begin keeps a stored image only if its CRC word is
\* the CRC of its stored payload.
C31_CrcLastAndTornSaveResets ==
  [][ /\ lastOp'.op = "powerCut" => lastOp'.fields = lastOp'.of - 4
      /\ (lastOp.op = "powerCut" /\ lastOp.k = lastOp.fields /\ lastOp.changed
            /\ lastOp'.op = "begin")
           => /\ ~lastOp'.ret
              /\ image' = StampHeader([ ZeroImage EXCEPT !.payload.selfId = uid[1] ])
              /\ nvm' = ImageBytes(image')
      /\ (lastOp'.op = "begin" /\ lastOp'.ret) => StoredCrcMatches(nvm) ]_vars

\* the same for a save that began with a loadable image in the NVM
TornSaveOfValidImageResets ==
  [][ /\ lastOp'.op = "powerCut" => lastOp'.fields = lastOp'.of - 4
      /\ (lastOp.op = "powerCut" /\ lastOp.k = lastOp.fields /\ lastOp.changed
            /\ lastOp.validBefore /\ lastOp'.op = "begin")
           => /\ ~lastOp'.ret
              /\ image' = StampHeader([ ZeroImage EXCEPT !.payload.selfId = uid[1] ])
              /\ nvm' = ImageBytes(image')
      /\ (lastOp'.op = "begin" /\ lastOp'.ret) => StoredCrcMatches(nvm) ]_vars

(***************************************************************************)
(* Properties of the disconnect debounce of the battery build.             *)
(***************************************************************************)
\* C32: in the battery build a Connected engine declares Disconnected on the
\* tick at which the line has read unstable or HIGH for
\* DISCONNECT_DEBOUNCE_US over consecutive ticks, and it declares it on no
\* other tick: a tick that finds the connection valid restarts the debounce.
C32_DisconnectDebounce ==
  [][ lastOp'.op = "batLoop" /\ bat.state = "Connected"
      => (lastOp'.lost <=> hal'.badFor >= DISCONNECT_DEBOUNCE_US) ]_vars

\* the same debounce counted over the ticks whose five readings disagree,
\* which is what validateConnection rejects
UnstableDisconnectDebounce ==
  [][ lastOp'.op = "batLoop" /\ bat.state = "Connected"
      => (lastOp'.lost <=> hal'.unstableFor >= DISCONNECT_DEBOUNCE_US) ]_vars

\* a Connected engine has seen the line HIGH for the whole debounce time
C32_HighForDebounce ==
  /\ lastOp.op = "batLoop" /\ lastOp.was = "Connected"
  /\ hal.badFor >= DISCONNECT_DEBOUNCE_US
  /\ hal.unstableFor = 0

\* a Connected engine has declared Disconnected
C32_Lost == lastOp.op = "batLoop" /\ lastOp.lost

(***************************************************************************)
(* Properties of DUMP.                                                     *)
(***************************************************************************)
\* the links DUMP is to emit for its arguments: those at the indices
\* offset .. min(offset + count, linkCount) - 1, as hex, in index order
DumpItems(pl, offset, count) ==
  LET lo == IF offset < 0 THEN 0 ELSE offset
      n  == IF count < 0 THEN 0 ELSE count
      hi == IF lo + n > pl.linkCount THEN pl.linkCount ELSE lo + n
  IN  [ k \in 1..(IF hi > lo THEN hi - lo ELSE 0) |-> bytesToHex(pl.links[lo + k]) ]

\* C33: after DUMP with any offset and count the response lists the recorded
\* links at the indices offset .. min(offset + count, linkCount) - 1 in
\* index order, its count field is the number of items and is not negative,
\* and with the offset at or beyond the recorded links the list is empty.
C33_DumpRange ==
  lastOp.op = "dump" =>
    /\ usb.event = "links"
    /\ usb.items = DumpItems(image.payload, lastOp.offset, lastOp.count)
    /\ "count" \in DOMAIN usb => usb.count = Len(usb.items) /\ usb.count >= 0
    /\ lastOp.offset >= image.payload.linkCount => usb.items = << >>

\* the same with the count field left aside when the offset is beyond the
\* recorded links
DumpRangeWithinLinks ==
  lastOp.op = "dump" =>
    /\ usb.event = "links"
    /\ usb.items = DumpItems(image.payload, lastOp.offset, lastOp.count)
    /\ "count" \in DOMAIN usb /\ lastOp.offset <= image.payload.linkCount
         => usb.count = Len(usb.items) /\ usb.count >= 0
    /\ lastOp.offset >= image.payload.linkCount => usb.items = << >>

\* DUMP has listed two links
C33_TwoItems == lastOp.op = "dump" /\ Len(usb.items) = 2

(***************************************************************************)
(* Properties of over-long serial lines.                                   *)
(***************************************************************************)
\* poll reads the newline of a line of more than CMD_BUF_SIZE - 1 characters
OverlongLineEnds ==
  /\ calc.fn = "poll"
  /\ SerialStreams[calc.stream][calc.pos] = "\n"
  /\ calc.lineLen > CMD_BUF_SIZE - 1

\* C34: when a serial line of more than CMD_BUF_SIZE - 1 = 127 characters
\* ends, no part of it is handed to handleLine (no command handler runs,
\* nothing is printed) and image and NVM are unchanged.
C34_OverlongLineDiscarded ==
  [][ OverlongLineEnds /\ lastOp'.op = "pollChar"
      => /\ ~lastOp'.ret
         /\ usb' = usb /\ image' = image /\ nvm' = nvm ]_vars

\* of a line of more than 127 characters the first CMD_BUF_SIZE are always
\* discarded: what handleLine gets, if anything, is shorter than the line by
\* at least that, and a line of 128 characters is discarded whole
OverlongLineHeadDiscarded ==
  [][ OverlongLineEnds /\ lastOp'.op = "pollChar"
      => /\ Len(lastOp'.line) <= calc.lineLen - CMD_BUF_SIZE
         /\ lastOp'.ret <=> Len(lastOp'.line) > 0
         /\ calc.lineLen = CMD_BUF_SIZE
              => ~lastOp'.ret /\ usb' = usb /\ image' = image /\ nvm' = nvm ]_vars

\* the end of an over-long line has run CLEAR on a store with a saved link
C34_TailRanClear ==
  /\ lastOp.op = "pollChar" /\ lastOp.ret /\ lastOp.line = W_CLEAR
  /\ usb.event = "ack"

(***************************************************************************)
(* Properties of the dirty flag and of recorded links.                     *)
(***************************************************************************)
\* C35: after any store operations, whenever the dirty flag is false the
\* NVM holds the in-memory image byte for byte (header and payload), so
\* that a reboot restores the in-memory state.
C35_CleanMeansSaved ==
  (powered /\ ~dirty) => nvm = ImageBytes(image)

\* the same for the store as begin and the full saves leave it
FullSaveMeansSaved ==
  (powered /\ lastOp.op \in { "begin", "saveNow", "clearAll" })
    => ~dirty /\ nvm = ImageBytes(image)

\* a fast save has cleared the dirty flag with a link that is only in memory
C35_FastSaveLeftLink ==
  /\ powered /\ ~dirty /\ lastOp.op = "saveTapCountOnly"
  /\ image.payload.linkCount = 1
  /\ Slice(nvm, OffPayload + OffLinkCount, 2) = LE16(0)

\* a step of the running store that is not clearAll
KeepsLinks == powered /\ powered' /\ lastOp'.op # "clearAll"

\* C36 as stated: a recorded link is lost only by clearAll; addLink,
\* incrementTapCount, setSecretKey, the saves and loop keep hasLink(p) true.
C36_LinkLostOnlyByClearAll ==
  [][ \A p \in Peers :
        KeepsLinks /\ hasLink(image.payload, p) => hasLink(image'.payload, p) ]_vars

\* C36: a recorded link is lost only by clearAll or by addLink of a new peer
\* into a full table (linkCount = MAX_LINKS), which overwrites the link in
\* slot 0 and no other; incrementTapCount, setSecretKey, the saves, loop and
\* every other addLink keep hasLink(p) true.
C36_LinkLostOnlyByClearAllOrWrap ==
  [][ \A p \in Peers :
        KeepsLinks /\ hasLink(image.payload, p) /\ ~hasLink(image'.payload, p)
          => /\ lastOp'.op = "addLink" /\ lastOp'.ret
             /\ image.payload.linkCount = MAX_LINKS
             /\ image.payload.links[1] = p
             /\ image'.payload.links[1] = lastOp'.peer ]_vars

\* addLink into a full table has replaced the link of slot 0 and kept the
\* link of the last slot
C36_Witness ==
  /\ lastOp.op = "addLink" /\ lastOp.ret /\ ~linkCountChanged
  /\ image.payload.linkCount = MAX_LINKS
  /\ image.payload.links[1] = lastOp.peer
  /\ \E p \in Peers : p # lastOp.peer /\ image.payload.links[MAX_LINKS] = p
  /\ \E p \in Peers : ~hasLink(image.payload, p)

(***************************************************************************)
(* Properties of a device without a peer.                                  *)
(***************************************************************************)
\* C37: the engine becomes Connected and raises the negotiation-complete
\* event only if a peer took part in the negotiation: a device alone, whose
\* line reads LOW through a glitch or a short to ground, never does either
\* and counts no tap.
C37_NoPeerNoTap ==
  ~hal.peerPresent =>
    /\ tap[1].state # "Connected"
    /\ ~(lastOp.op = "appLoop" /\ lastOp.ret)
    /\ image.payload.totalTapCount = U32(0)

\* a device alone whose line reads HIGH at every poll stays in NoConnection
IdleLineStaysIdle ==
  [][ lastOp'.op = "appLoop" /\ ~lastOp'.lineLow /\ tap[1].state = "NoConnection"
      => tap'[1].state = "NoConnection" /\ ~lastOp'.ret
         /\ image'.payload.totalTapCount = image.payload.totalTapCount ]_vars

\* a device alone has counted a tap
C37_LoneTap ==
  /\ ~hal.peerPresent /\ tap[1].state = "Connected"
  /\ image.payload.totalTapCount = U32(1)

(***************************************************************************)
(* Properties of two joined devices whose loops keep running.              *)
(***************************************************************************)
\* one device is master and the other is slave
OneMasterOneSlave ==
  \E d \in Devices : tap[d].isMaster /\ ~tap[Peer(d)].isMaster

\* C38: two devices with distinct identifiers that were joined while idle
\* and stay joined, with both main loops running, are eventually both
\* Connected, one as master and the other as slave (and then record each
\* other's identifier: the identifiers are exchanged by the commands of the
\* master to the slave, so the links presuppose the two roles stated here).
C38_EventuallyPaired == <>(BothConnected /\ OneMasterOneSlave)

\* both devices are eventually Connected and know a role
EventuallyBothConnected ==
  <>(BothConnected /\ \A d \in Devices : tap[d].roleKnown)

\* both devices are Connected as master
C38_TwoMasters ==
  BothConnected /\ \A d \in Devices : tap[d].isMaster

(***************************************************************************)
(* Properties of the line between two engine calls.                        *)
(***************************************************************************)
\* the engine is Connected with the role a command call needs
RoleMatches(name) ==
  /\ tap[1].state = "Connected" /\ tap[1].roleKnown
  /\ tap[1].isMaster <=> name = "masterSendCommand"

\* C39: when an engine call has returned, the engine holds the line LOW only
\* while a presence pulse is in progress in NoConnection: every call other
\* than poll in NoConnection (poll in the other states with
\* startNegotiation and pollNegotiation, masterSendCommand,
\* slaveReceiveCommand, slaveSendResponse, reset) returns with the line
\* released unless it left a running presence pulse alone; and
\* masterSendCommand and the slave calls make no driveLow call unless the
\* engine is Connected with the matching role.
C39_LineReleasedBetweenCalls ==
  [][ /\ tap'[1].driving => app'.isPulsing /\ tap'[1].state = "NoConnection"
      /\ (lastOp'.op = "poll" => tap[1].state # "NoConnection")
           => \/ ~tap'[1].driving
              \/ app.isPulsing /\ lastOp'.drove = << >>
      /\ lastOp'.op = "reset" => ~tap'[1].driving
      /\ ( /\ lastOp'.op \in { "masterSendCommand", "slaveReceiveCommand",
                               "slaveSendResponse" }
           /\ ~RoleMatches(lastOp'.op) )
           => lastOp'.drove = << >> ]_vars

\* a Connected master has sent a command, driving the line in between, and
\* has released it
C39_Witness ==
  /\ lastOp.op = "masterSendCommand"
  /\ TRUE \in { lastOp.drove[k] : k \in DOMAIN lastOp.drove }
  /\ ~tap[1].driving /\ tap[1].state = "Connected"

(***************************************************************************)
(* Properties of MockStorage against Storage.                              *)
(***************************************************************************)
\* the two objects returned the same result and report the same links and
\* counters
SameLinksAndCounts ==
  /\ "mockRet" \in DOMAIN lastOp => lastOp.ret = lastOp.mockRet
  /\ calc.payload.linkCount = image.payload.linkCount
  /\ calc.payload.totalTapCount = image.payload.totalTapCount
  /\ \A p \in Peers : MockHasLink(calc, p) = hasLink(image.payload, p)

\* C40: after every sequence of addLink, incrementTapCount, setSecretKey and
\* clearAll applied to a MockStorage and a Storage from their initial
\* states, the two returned the same results and report the same linkCount,
\* totalTapCount, hasLink, hasSecretKey and getKeyVersion.
C40_MockEquivalent ==
  /\ SameLinksAndCounts
  /\ MockHasSecretKey(calc) = hasSecretKey(image.payload)
  /\ MockGetKeyVersion(calc) = getKeyVersion(image.payload)

\* the same without the key: results, linkCount, totalTapCount and hasLink
\* agree after every sequence, and the key queries agree as long as clearAll
\* has not been called
MockEquivalentUntilClear ==
  /\ SameLinksAndCounts
  /\ ~calc.clearAllCalled
       => /\ MockHasSecretKey(calc) = hasSecretKey(image.payload)
          /\ MockGetKeyVersion(calc) = getKeyVersion(image.payload)

\* clearAll has left the key with the mock only
C40_KeySurvivesClear ==
  /\ lastOp.op = "clearAll"
  /\ MockHasSecretKey(calc) /\ ~hasSecretKey(image.payload)
  /\ MockGetKeyVersion(calc) = 1 /\ getKeyVersion(image.payload) = 0

====
